---- MODULE Spec2Model ----
(***************************************************************************)
(* Model of the provisioning scripts of aks-platform:                      *)
(*   scripts/setup-azure-credentials.py        (script = "azure")          *)
(*   scripts/setup-environment-credentials.py  (script = "env")            *)
(* Every external command (az, gh, which) is one step; its exit code and   *)
(* its output are chosen by the environment at the step.                   *)
(***************************************************************************)
EXTENDS Integers, Sequences, FiniteSets, TLC

(***************************************************************************)
(* Bounds of the model                                                     *)
(***************************************************************************)
\* how many namespaces of required_providers (a prefix of the list) a run checks
NumProviders == 2
\* how long a slow provider-state query takes, in time units
QueryLatency == 5
\* how many times the script is started in the same subscription and directory
MaxRuns == 2
\* the largest total cost the cost query answers, in whole dollars
MaxCost == 11

(***************************************************************************)
(* Program constants                                                       *)
(***************************************************************************)
max_wait_time == 300
sleep_interval == 10
short_project_len == 8
timestamp_len == 6
AzureNameLimit == 24

required_providers ==
  << "Microsoft.ContainerService", "Microsoft.ContainerRegistry",
     "Microsoft.ContainerInstance", "Microsoft.Network", "Microsoft.Compute",
     "Microsoft.Storage", "Microsoft.KeyVault", "Microsoft.Authorization",
     "Microsoft.Resources", "Microsoft.ManagedIdentity" >>

Min(a, b) == IF a < b THEN a ELSE b
Max(a, b) == IF a > b THEN a ELSE b

\* the namespaces the model checks: the first NumProviders of the list
Providers == SubSeq(required_providers, 1, Min(NumProviders, Len(required_providers)))
ProviderSet == {Providers[k] : k \in 1..Len(Providers)}

required_tools == << "az", "jq" >>
additional_roles == << "User Access Administrator", "Key Vault Administrator" >>
base_roles == << "User Access Administrator", "Key Vault Administrator" >>
all_environments_list == << "dev", "staging", "prod" >>

\* env_roles.get(environment, [])
env_roles(environment) ==
  CASE environment = "dev"     -> << "Storage Account Contributor" >>
    [] environment = "staging" -> << "Storage Account Contributor", "Network Contributor" >>
    [] environment = "prod"    -> << "Storage Account Contributor", "Network Contributor",
                                     "Security Admin" >>
    [] OTHER                   -> << >>

(***************************************************************************)
(* Strings.  A project name is a sequence of characters, so that replace   *)
(* and slicing act on it character by character.                           *)
(***************************************************************************)
RECURSIVE Join(_)
Join(cs) == IF cs = << >> THEN "" ELSE Head(cs) \o Join(Tail(cs))

\* s.replace(ch, "")
Remove(cs, ch) == SelectSeq(cs, LAMBDA c : c # ch)
\* s[:n]
Prefix(cs, n) == SubSeq(cs, 1, Min(n, Len(cs)))
\* s[-n:]
Suffix(cs, n) == SubSeq(cs, Max(1, Len(cs) - n + 1), Len(cs))

\* project_name.replace("-", "").replace("_", "")[:8]
ShortProject(project) == Prefix(Remove(Remove(project, "-"), "_"), short_project_len)
\* str(int(time.time()))[-6:]
Timestamp(epoch) == Suffix(epoch, timestamp_len)
\* slip: the environment label is left out of the name
StorageNameWithoutEnv(project, env, timestamp) ==
  Join(ShortProject(project)) \o "tf" \o Join(timestamp)
\* f"{short_project}tf{env}{timestamp}"
StorageName(project, env, timestamp) ==
  Join(ShortProject(project)) \o "tf" \o env \o Join(timestamp)

\* f"{project_name}-terraform-state-rg"
RgName(project) == Join(project) \o "-terraform-state-rg"
\* f"{project_name}-{sp_type}-sp"
SpName(project, sp_type) == Join(project) \o "-" \o sp_type \o "-sp"
\* what the directory answers for an application: its id and its secret
AppIdOf(sp_name) == "appid:" \o sp_name
SecretOf(sp_name) == "secret:" \o sp_name

(***************************************************************************)
(* Inputs                                                                  *)
(***************************************************************************)
Acme == << "a", "c", "m", "e" >>
AksPlatform == << "a", "k", "s", "-", "p", "l", "a", "t", "f", "o", "r", "m" >>
ProjectNames == { Acme, AksPlatform }

\* int(time.time()) in decimal digits, at the time storage accounts are made
Epochs == { << "1", "7", "9", "9", "0", "0", "0", "1", "2", "3" >>,
            << "1", "8", "0", "0", "9", "8", "7", "6", "5", "4" >> }

NoArgs == [all_environments |-> FALSE, environment |-> "", environments |-> << >>,
           skip_github |-> FALSE]

\* command lines of setup-azure-credentials.py
AzureArgs ==
  { NoArgs,
    [NoArgs EXCEPT !.environment = "dev"],
    [NoArgs EXCEPT !.environment = "production"],
    [NoArgs EXCEPT !.environments = << "dev", "staging" >>],
    [NoArgs EXCEPT !.all_environments = TRUE],
    [NoArgs EXCEPT !.all_environments = TRUE, !.environment = "dev"] }

\* command lines of setup-environment-credentials.py
EnvArgs ==
  { NoArgs,
    [NoArgs EXCEPT !.environment = "staging"],
    [NoArgs EXCEPT !.all_environments = TRUE],
    [NoArgs EXCEPT !.all_environments = TRUE, !.environment = "prod"],
    [NoArgs EXCEPT !.skip_github = TRUE],
    [NoArgs EXCEPT !.all_environments = TRUE, !.skip_github = TRUE] }

\* command lines of show-infrastructure.py
ShowArgs ==
  { NoArgs,
    [NoArgs EXCEPT !.environment = "prod"],
    [NoArgs EXCEPT !.all_environments = TRUE],
    [NoArgs EXCEPT !.all_environments = TRUE, !.environment = "staging"] }

\* what a provider-state query can answer: exit code and stripped stdout
QueryAnswers ==
  { [rc |-> 0, out |-> "Registered"], [rc |-> 0, out |-> "Registering"],
    [rc |-> 0, out |-> "NotRegistered"], [rc |-> 1, out |-> ""] }
ExitCodes == { 0, 1 }

(***************************************************************************)
(* State                                                                   *)
(***************************************************************************)
VARIABLES
  script,        \* which script runs
  args,          \* parsed command line
  project_name,  \* args.project_name
  run,           \* how many times the script has been started
  environments,  \* the environments selected
  pc,            \* position in the script
  exit_code,     \* process exit status, meaningful when pc = "exited"
  prov,          \* locals of check_and_register_providers and its call counts
  loc,           \* locals of main and of the provisioning routines
  calls,         \* number of external commands issued, by kind
  completed,     \* what the last of these commands handed back
  cloud,         \* what exists in the subscription and in the directory
  files,         \* files in the working directory: name -> content
  log            \* messages printed

vars == << script, args, project_name, run, environments, pc, exit_code,
           prov, loc, calls, completed, cloud, files, log >>

\* (the provider-state queries and register calls are counted in prov)
CallKinds == { "which", "account_show", "group_show", "group_create", "storage_create", "container_create",
               "sp_list", "sp_create", "role_assign", "gh_secret", "gh_variable" }

ProvInit ==
  [ unregistered_providers |-> << >>,
    i              |-> 1,
    elapsed        |-> 0,      \* time.time() - start_time
    all_registered |-> FALSE,
    query_failed   |-> { },    \* namespaces whose first state query failed
    registered_first |-> { },  \* namespaces whose first state query answered Registered
    register_failed |-> FALSE, \* some register call returned non-zero
    state_queries  |-> [ns \in ProviderSet |-> 0],
    register_calls |-> [ns \in ProviderSet |-> 0],
    answered       |-> { },    \* namespaces that answered Registered in this iteration
    poll_iterations |-> 0,
    poll_queries   |-> 0,      \* state queries of the current polling iteration
    sleeps         |-> 0 ]

LocInit ==
  [ i            |-> 1,
    e            |-> 1,           \* index of the environment being set up
    role_failed  |-> FALSE,       \* some role assignment of this run failed
    rg_name      |-> "",
    group_lookup |-> "",          \* what az group show answered: "exists" or "absent"
    sp_found     |-> { },         \* display names the lookup answered an id for
    sp_create_calls |-> { },      \* display names create-for-rbac was issued for
    timestamp    |-> << >>,
    storage_name |-> "",
    storage_accounts |-> << >>,   \* dict env -> storage account name
    sp_type      |-> "",
    sp_info      |-> << >>,       \* dict being built by the running routine
    terraform_sp |-> << >>,
    github_sp    |-> << >>,
    azure_info   |-> << >>,
    env_config   |-> << >> ]      \* self.environments: env -> configuration

CloudInit ==
  [ groups     |-> { },   \* resource groups: records [name, tags]
    accounts   |-> { },   \* storage accounts: records [name, tags]
    containers |-> { },   \* blob containers: records [name, account]
    principals |-> { },   \* service principals, by display name
    role_requests |-> { },   \* role assignments asked for: << app id, role >>
    gh_secrets |-> { },   \* GitHub secrets asked for: << environment, name >>
    gh_variables |-> { } ]   \* GitHub variables asked for: << environment, name >>

\* subprocess.run(cmd, capture_output=True, text=True): the exit code and the
\* captured output of the command; check is the flag the command was run with
Completed(kind, check, rc, out) ==
  [kind |-> kind, check |-> check, returncode |-> rc, stdout |-> out,
   stderr |-> IF rc = 0 THEN "" ELSE "stderr"]
NoResult == Completed("", FALSE, 0, "")

\* the credentials file an earlier run of the script left for dev
StaleFile == [clientId |-> "appid:stale", clientSecret |-> "secret:stale"]
CredentialsFile(environment) == "github-actions-credentials-" \o environment \o ".json"

Init ==
  /\ script \in { "azure", "env", "show" }
  /\ args \in (CASE script = "azure" -> AzureArgs
                  [] script = "env" -> EnvArgs
                  [] OTHER -> ShowArgs)
  /\ project_name \in ProjectNames
  /\ run = 1
  /\ environments = << >>
  /\ pc = "parse_args"
  /\ exit_code = 0
  /\ prov = ProvInit
  /\ loc = LocInit
  /\ calls = [k \in CallKinds |-> 0]
  /\ completed = NoResult
  /\ cloud = CloudInit
  /\ files \in (IF script = "env"
                  THEN { << >>, (CredentialsFile("dev") :> StaleFile) }
                  ELSE { << >> })
  /\ log = { }

(***************************************************************************)
(* Helpers shared by the actions                                           *)
(***************************************************************************)
Called(kind) == calls' = [calls EXCEPT ![kind] = @ + 1]

\* dict with one more key
Put(d, k, v) == [x \in DOMAIN d \cup {k} |-> IF x = k THEN v ELSE d[x]]

\* slip: the exit code is never looked at
CommandNeverAborts(check, rc) == FALSE
\* run_command: with check=True a non-zero exit ends the process
CommandAborts(check, rc) == check /\ rc # 0

\* slip: sys.exit() without a status
ExitZero(msgs) ==
  /\ pc' = "exited"
  /\ exit_code' = 0
  /\ log' = log \cup msgs
\* sys.exit(1)
Exit1(msgs) ==
  /\ pc' = "exited"
  /\ exit_code' = 1
  /\ log' = log \cup msgs

\* slip: the captured standard error is not printed
CommandFailedWithoutStderr == { "Command failed" }
\* run_command's report of a failed command, as printed before sys.exit(1)
CommandFailed == { "Command failed", "Error: stderr" }

(***************************************************************************)
(* setup-azure-credentials.py: main, environment selection                 *)
(***************************************************************************)
\* slip: "--environment" is looked at first, as in the other two scripts
SelectEnvironmentsSingleFirst(a) ==
  IF a.environment # "" THEN << a.environment >>
  ELSE IF a.all_environments THEN all_environments_list
  ELSE a.environments
\* "--all-environments", else "--environment", else "--environments", else nothing
SelectEnvironments(a) ==
  IF a.all_environments THEN all_environments_list
  ELSE IF a.environment # "" THEN << a.environment >>
  ELSE a.environments

\* slip: without a choice the run goes on with dev, as the other scripts do
ParseArgsDefaultsToDev ==
  /\ pc = "parse_args"
  /\ script = "azure"
  /\ LET selected == SelectEnvironments(args) IN
       environments' = IF selected # << >> THEN selected ELSE << "dev" >>
  /\ pc' = "check_tools"
  /\ loc' = [loc EXCEPT !.i = 1]
  /\ UNCHANGED << exit_code, log >>
  /\ UNCHANGED << script, args, project_name, run, completed, prov, calls, cloud, files >>

\* main: the environment selection; without a choice, the error and sys.exit(1)
ParseArgs ==
  /\ pc = "parse_args"
  /\ script = "azure"
  /\ LET selected == SelectEnvironments(args) IN
       IF selected # << >>
         THEN /\ environments' = selected
              /\ pc' = "check_tools"
              /\ loc' = [loc EXCEPT !.i = 1]
              /\ UNCHANGED << exit_code, log >>
         ELSE /\ Exit1({ "Environment must be specified explicitly" })
              /\ UNCHANGED << environments, loc >>
  /\ UNCHANGED << script, args, project_name, run, completed, prov, calls, cloud, files >>

(***************************************************************************)
(* check_prerequisites                                                     *)
(***************************************************************************)
\* slip: a missing tool is reported and the run goes on
CheckToolWarns ==
  /\ pc = "check_tools"
  /\ Called("which")
  /\ \E rc \in ExitCodes :
       /\ completed' = Completed("which", FALSE, rc, "")
       /\ log' = IF rc # 0 THEN log \cup { "tool is not installed" } ELSE log
       /\ IF loc.i < Len(required_tools)
            THEN /\ loc' = [loc EXCEPT !.i = @ + 1]
                 /\ pc' = pc
            ELSE /\ loc' = [loc EXCEPT !.i = 1]
                 /\ pc' = "check_login"
  /\ UNCHANGED << script, args, project_name, run, environments, exit_code, prov,
                  cloud, files >>

\* which az, which jq
CheckTool ==
  /\ pc = "check_tools"
  /\ Called("which")
  /\ \E rc \in ExitCodes :
       /\ completed' = Completed("which", FALSE, rc, "")
       /\ IF rc # 0
         THEN Exit1({ "tool is not installed" }) /\ UNCHANGED loc
         ELSE /\ IF loc.i < Len(required_tools)
                   THEN /\ loc' = [loc EXCEPT !.i = @ + 1]
                        /\ pc' = pc
                   ELSE /\ loc' = [loc EXCEPT !.i = 1]
                        /\ pc' = "check_login"
              /\ UNCHANGED << exit_code, log >>
  /\ UNCHANGED << script, args, project_name, run, environments, prov, cloud, files >>

\* az account show
CheckLogin ==
  /\ pc = "check_login"
  /\ Called("account_show")
  /\ \E rc \in ExitCodes :
       /\ completed' = Completed("account_show", FALSE, rc, "")
       /\ IF rc # 0
         THEN Exit1({ "Not logged in to Azure" }) /\ UNCHANGED loc
         ELSE /\ pc' = "query_providers"
              /\ UNCHANGED << exit_code, loc, log >>
  /\ UNCHANGED << script, args, project_name, run, environments, prov, cloud, files >>

(***************************************************************************)
(* check_and_register_providers                                            *)
(***************************************************************************)
\* slip: the state is compared with the wrong literal
NeedsRegistrationWrongCase(ans) == ans.rc # 0 \/ ans.out # "registered"
\* slip: a failed query is taken for a registered namespace
NeedsRegistrationSkipsFailures(ans) == ans.rc = 0 /\ ans.out # "Registered"
\* the first pass appends the namespace unless it answered "Registered"
NeedsRegistration(ans) == ans.rc # 0 \/ ans.out # "Registered"
\* slip: the exit code of the polling query is not looked at
NotReadyIgnoresFailure(ans) == ans.rc = 0 /\ ans.out # "Registered"
\* the polling pass: result.returncode != 0 or stdout != "Registered"
NotReady(ans) == ans.rc # 0 \/ ans.out # "Registered"
\* slip: the budget test is inclusive
BudgetLeftInclusive(elapsed) == elapsed <= max_wait_time
\* while time.time() - start_time < max_wait_time
BudgetLeft(elapsed) == elapsed < max_wait_time
\* time.sleep(10)
AfterSleep(elapsed) == elapsed + sleep_interval
\* a provider-state query answers at once or after QueryLatency
Latencies == { 0, QueryLatency }
\* slip: the outcome of the register call is ignored
RegisterNeverAborts(rc) == FALSE
\* a failed register call ends the run
RegisterAborts(rc) == rc # 0

\* for provider in required_providers: az provider show
QueryProvider ==
  /\ pc = "query_providers"
  /\ \E ans \in QueryAnswers :
       LET ns == Providers[prov.i]
           unreg == IF NeedsRegistration(ans)
                      THEN Append(prov.unregistered_providers, ns)
                      ELSE prov.unregistered_providers
           failed == IF ans.rc # 0 THEN prov.query_failed \cup {ns} ELSE prov.query_failed
           first == IF ans.rc = 0 /\ ans.out = "Registered"
                      THEN prov.registered_first \cup {ns} ELSE prov.registered_first
           p == [prov EXCEPT !.unregistered_providers = unreg,
                             !.query_failed = failed,
                             !.registered_first = first,
                             !.state_queries[ns] = @ + 1]
       IN IF prov.i < Len(Providers)
            THEN /\ prov' = [p EXCEPT !.i = @ + 1]
                 /\ pc' = pc
                 /\ log' = log
            ELSE /\ prov' = [p EXCEPT !.i = 1]
                 /\ IF unreg # << >>
                      THEN /\ pc' = "register"
                           /\ log' = log
                      ELSE /\ pc' = "providers_done"
                           /\ log' = log \cup { "already registered" }
  /\ UNCHANGED << script, args, project_name, run, completed, environments, exit_code,
                  loc, calls, cloud, files >>

\* slip: the register call's standard error is printed as well
RegisterFailedWithStderr == { "Failed to register", "Error: stderr" }
\* print_error(f"Failed to register {provider}")
RegisterFailed == { "Failed to register" }

\* for provider in unregistered_providers: az provider register
RegisterProvider ==
  /\ pc = "register"
  /\ \E rc \in ExitCodes :
       LET ns == prov.unregistered_providers[prov.i]
           p == [prov EXCEPT !.register_calls[ns] = @ + 1,
                             !.register_failed = @ \/ rc # 0]
       IN IF RegisterAborts(rc)
            THEN /\ prov' = p
                 /\ Exit1(RegisterFailed)
                 /\ UNCHANGED loc
            ELSE /\ IF prov.i < Len(prov.unregistered_providers)
                      THEN /\ prov' = [p EXCEPT !.i = @ + 1]
                           /\ pc' = pc
                      ELSE \* start_time = time.time()
                           /\ prov' = [p EXCEPT !.i = 1, !.elapsed = 0]
                           /\ pc' = "poll_test"
                 /\ UNCHANGED << exit_code, loc, log >>
  /\ UNCHANGED << script, args, project_name, run, completed, environments, calls, cloud,
                  files >>

\* slip: an exhausted budget ends the run
PollTestFatal ==
  /\ pc = "poll_test"
  /\ IF BudgetLeft(prov.elapsed)
       THEN /\ prov' = [prov EXCEPT !.all_registered = TRUE, !.i = 1,
                                    !.answered = { }, !.poll_queries = 0,
                                    !.poll_iterations = @ + 1]
            /\ pc' = "poll_query"
            /\ log' = log
            /\ UNCHANGED exit_code
       ELSE /\ prov' = prov
            /\ Exit1({ "registration is taking longer than expected" })
  /\ UNCHANGED << script, args, project_name, run, completed, environments, loc, calls, cloud, files >>

\* the while condition, and the else branch of the while
PollTest ==
  /\ pc = "poll_test"
  /\ IF BudgetLeft(prov.elapsed)
       THEN /\ prov' = [prov EXCEPT !.all_registered = TRUE, !.i = 1,
                                    !.answered = { }, !.poll_queries = 0,
                                    !.poll_iterations = @ + 1]
            /\ pc' = "poll_query"
            /\ log' = log
       ELSE /\ prov' = prov
            /\ pc' = "providers_done"
            /\ log' = log \cup { "registration is taking longer than expected" }
  /\ UNCHANGED << script, args, project_name, run, completed, environments, exit_code,
                  loc, calls, cloud, files >>

\* the for loop of one polling iteration: az provider show, break on not ready
PollQuery ==
  /\ pc = "poll_query"
  /\ \E ans \in QueryAnswers, d \in Latencies :
       LET ns == prov.unregistered_providers[prov.i]
           p == [prov EXCEPT !.elapsed = @ + d, !.poll_queries = @ + 1,
                             !.answered = IF ans.rc = 0 /\ ans.out = "Registered"
                                            THEN @ \cup {ns} ELSE @]
       IN IF NotReady(ans)
            THEN /\ prov' = [p EXCEPT !.all_registered = FALSE]
                 /\ pc' = "poll_sleep"
                 /\ log' = log
            ELSE IF prov.i < Len(prov.unregistered_providers)
                   THEN /\ prov' = [p EXCEPT !.i = @ + 1]
                        /\ pc' = pc
                        /\ log' = log
                   ELSE /\ prov' = p
                        /\ pc' = "providers_done"
                        /\ log' = log \cup { "all providers registered" }
  /\ UNCHANGED << script, args, project_name, run, completed, environments, exit_code,
                  loc, calls, cloud, files >>

\* print "Still waiting", time.sleep(10)
PollSleep ==
  /\ pc = "poll_sleep"
  /\ prov' = [prov EXCEPT !.elapsed = AfterSleep(@), !.sleeps = @ + 1]
  /\ pc' = "poll_test"
  /\ UNCHANGED << script, args, project_name, run, completed, environments, exit_code,
                  loc, calls, cloud, files, log >>

\* check_and_register_providers returns; print_success("Prerequisites check passed")
PrerequisitesPassed ==
  /\ pc = "providers_done"
  /\ prov' = ProvInit
  /\ log' = log \cup { "prerequisites passed" }
  /\ pc' = "get_subscription"
  /\ UNCHANGED << script, args, project_name, run, completed, environments, exit_code,
                  loc, calls, cloud, files >>

(***************************************************************************)
(* get_subscription_info                                                   *)
(***************************************************************************)
AccountInfo == [subscription_id |-> "sub-1", subscription_name |-> "Sub One",
                tenant_id |-> "tenant-1"]

\* az account show --output json, then json.loads
GetSubscriptionInfo ==
  /\ pc = "get_subscription"
  /\ script = "azure"
  /\ Called("account_show")
  /\ \E rc \in ExitCodes, json_ok \in BOOLEAN :
       /\ completed' = Completed("account_show", TRUE, rc, "")
       /\ IF CommandAborts(TRUE, rc)
         THEN Exit1(CommandFailed) /\ UNCHANGED loc
         ELSE IF ~json_ok
           THEN Exit1({ "Setup failed" }) /\ UNCHANGED loc
           ELSE /\ loc' = [loc EXCEPT !.azure_info = AccountInfo]
                /\ pc' = "group_show"
                /\ UNCHANGED << exit_code, log >>
  /\ UNCHANGED << script, args, project_name, run, environments, prov, cloud, files >>

(***************************************************************************)
(* create_state_resource_group                                             *)
(***************************************************************************)
Names(entities) == { e.name : e \in entities }
\* something this run did not create, seen by a lookup
Foreign(name) == [name |-> name, tags |-> { }, own |-> FALSE]
Own(name, tags) == [name |-> name, tags |-> tags, own |-> TRUE]

\* slip: the test of the lookup is inverted
GroupExistsInverted(rc) == rc # 0
\* if result.returncode == 0: the group exists
GroupExists(rc) == rc = 0

\* az group show --name rg_name (check=False); the query may fail for a group
\* that exists, which the script cannot tell from a group that is absent
ShowResourceGroup ==
  /\ pc = "group_show"
  /\ Called("group_show")
  /\ \E rc \in ExitCodes :
       LET rg_name == RgName(project_name) IN
       /\ completed' = Completed("group_show", FALSE, rc, "")
       /\ loc' = [loc EXCEPT !.rg_name = rg_name,
                             !.group_lookup = IF rc = 0 THEN "exists" ELSE "absent"]
       /\ IF GroupExists(rc)
            THEN /\ log' = log \cup { "Resource group already exists" }
                 /\ cloud' = IF rg_name \in Names(cloud.groups) THEN cloud
                             ELSE [cloud EXCEPT !.groups = @ \cup { Foreign(rg_name) }]
                 /\ pc' = "storage_begin"
            ELSE /\ log' = log
                 /\ cloud' = cloud
                 /\ pc' = "group_create"
  /\ UNCHANGED << script, args, project_name, run, environments, exit_code,
                  prov, files >>

\* --tags Purpose=TerraformState Project=<project_name>
GroupTags(project) ==
  { << "Purpose", "TerraformState" >>, << "Project", Join(project) >> }

\* az group create --name rg_name --location ... --tags Purpose=... Project=...
CreateResourceGroup ==
  /\ pc = "group_create"
  /\ Called("group_create")
  /\ \E rc \in ExitCodes :
       /\ completed' = Completed("group_create", TRUE, rc, "")
       /\ IF CommandAborts(TRUE, rc)
         THEN Exit1(CommandFailed) /\ UNCHANGED cloud
         ELSE /\ cloud' = [cloud EXCEPT !.groups = { x \in @ : x.name # loc.rg_name }
                   \cup { Own(loc.rg_name, GroupTags(project_name)) }]
              /\ pc' = "storage_begin"
              /\ UNCHANGED << exit_code, log >>
  /\ UNCHANGED << script, args, project_name, run, environments, prov, loc, files >>

(***************************************************************************)
(* create_storage_accounts                                                 *)
(***************************************************************************)
\* storage_accounts = {}; timestamp = str(int(time.time()))[-6:]
BeginStorageAccounts ==
  /\ pc = "storage_begin"
  /\ \E epoch \in Epochs :
       loc' = [loc EXCEPT !.timestamp = Timestamp(epoch), !.storage_accounts = << >>,
                          !.i = 1]
  /\ pc' = "storage_create"
  /\ UNCHANGED << script, args, project_name, run, completed, environments, exit_code,
                  prov, calls, cloud, files, log >>

\* slip: the Project tag is left out
AccountTagsWithoutProject(project, env) ==
  { << "Environment", env >>, << "Purpose", "TerraformState" >> }
\* --tags Environment=<env> Purpose=TerraformState Project=<project_name>
AccountTags(project, env) ==
  { << "Environment", env >>, << "Purpose", "TerraformState" >>,
    << "Project", Join(project) >> }

\* az storage account create --name storage_name ...
CreateStorageAccount ==
  /\ pc = "storage_create"
  /\ Called("storage_create")
  /\ \E rc \in ExitCodes :
       LET env == environments[loc.i]
           storage_name == StorageName(project_name, env, loc.timestamp)
       IN /\ completed' = Completed("storage_create", TRUE, rc, "")
          /\ loc' = [loc EXCEPT !.storage_name = storage_name]
          /\ IF CommandAborts(TRUE, rc)
               THEN Exit1(CommandFailed) /\ UNCHANGED cloud
               ELSE /\ cloud' = [cloud EXCEPT !.accounts = @ \cup
                         { Own(storage_name, AccountTags(project_name, env)) }]
                    /\ pc' = "container_create"
                    /\ UNCHANGED << exit_code, log >>
  /\ UNCHANGED << script, args, project_name, run, environments, prov, files >>

\* az storage container create --name tfstate --account-name storage_name
CreateContainer ==
  /\ pc = "container_create"
  /\ Called("container_create")
  /\ \E rc \in ExitCodes :
       /\ completed' = Completed("container_create", TRUE, rc, "")
       /\ IF CommandAborts(TRUE, rc)
         THEN Exit1(CommandFailed) /\ UNCHANGED << cloud, loc >>
         ELSE /\ cloud' = [cloud EXCEPT !.containers = @ \cup
                   { [name |-> "tfstate", account |-> loc.storage_name, tags |-> { },
                      own |-> TRUE] }]
              /\ LET l == [loc EXCEPT !.storage_accounts =
                             Put(@, environments[loc.i], loc.storage_name)]
                 IN IF loc.i < Len(environments)
                      THEN /\ loc' = [l EXCEPT !.i = @ + 1]
                           /\ pc' = "storage_create"
                      ELSE /\ loc' = [l EXCEPT !.i = 1, !.sp_type = "terraform"]
                           /\ pc' = "sp_list"
              /\ UNCHANGED << exit_code, log >>
  /\ UNCHANGED << script, args, project_name, run, environments, prov, files >>

(***************************************************************************)
(* create_service_principal                                                *)
(***************************************************************************)
\* what az ad sp list can answer: a query that succeeds lists a principal that
\* exists; one that fails may print nothing
Listed(principals, sp_name, rc) ==
  IF sp_name \in Names(principals) /\ rc = 0 THEN { TRUE } ELSE BOOLEAN
\* the display names a lookup has answered an application id for
Seen(names, sp_name, found) == IF found THEN names \cup { sp_name } ELSE names
\* slip: the test of the lookup is inverted
PrincipalFoundInverted(out) == out = ""
\* if result.stdout.strip(): the principal exists
PrincipalFound(out) == out # ""
\* what the azure script returns for an existing principal
ExistingPrincipal(app_id) == [app_id |-> app_id]
\* what it returns for a principal it created
CreatedPrincipal(name) ==
  [app_id |-> AppIdOf(name), client_secret |-> SecretOf(name),
   sp_output |-> "sdk-auth:" \o name]

\* terraform_sp = ...; github_sp = ...
ReturnPrincipal(l, result) ==
  IF l.sp_type = "terraform"
    THEN [l EXCEPT !.terraform_sp = result, !.sp_type = "github-actions",
                   !.sp_info = << >>, !.i = 1]
    ELSE [l EXCEPT !.github_sp = result, !.sp_type = "", !.sp_info = << >>, !.i = 1]
\* slip: the second principal is never set up
AfterPrincipalOnce(l) == "gen_env"
\* main: the terraform principal, then the github-actions principal, then the files
AfterPrincipal(l) == IF l.sp_type = "terraform" THEN "sp_list" ELSE "gen_env"

\* az ad sp list --display-name sp_name --query [0].appId (check=False)
ListServicePrincipal ==
  /\ pc = "sp_list"
  /\ script = "azure"
  /\ Called("sp_list")
  /\ \E rc \in ExitCodes :
     \E found \in Listed(cloud.principals, SpName(project_name, loc.sp_type), rc) :
       LET sp_name == SpName(project_name, loc.sp_type)
           out == IF found THEN AppIdOf(sp_name) ELSE ""
       IN /\ completed' = Completed("sp_list", FALSE, rc, out)
          /\ IF PrincipalFound(out)
            THEN /\ log' = log \cup { "Service principal already exists" }
                 /\ cloud' = IF sp_name \in Names(cloud.principals) THEN cloud
                             ELSE [cloud EXCEPT !.principals = @ \cup { Foreign(sp_name) }]
                 /\ loc' = ReturnPrincipal([loc EXCEPT !.sp_found = Seen(@, sp_name, found)],
                                           ExistingPrincipal(out))
                 /\ pc' = AfterPrincipal(loc)
            ELSE /\ pc' = "sp_create"
                 /\ loc' = [loc EXCEPT !.sp_found = Seen(@, sp_name, found)]
                 /\ UNCHANGED << log, cloud >>
  /\ UNCHANGED << script, args, project_name, run, environments, exit_code,
                  prov, files >>

\* az ad sp create-for-rbac --name sp_name --role Contributor --sdk-auth; json.loads
CreateServicePrincipal ==
  /\ pc = "sp_create"
  /\ script = "azure"
  /\ Called("sp_create")
  /\ \E rc \in ExitCodes, json_ok \in BOOLEAN :
       LET sp_name == SpName(project_name, loc.sp_type) IN
       /\ completed' = Completed("sp_create", TRUE, rc, "")
       /\ IF CommandAborts(TRUE, rc)
         THEN /\ Exit1(CommandFailed)
              /\ loc' = [loc EXCEPT !.sp_create_calls = @ \cup { sp_name }]
              /\ UNCHANGED cloud
         ELSE /\ cloud' = [cloud EXCEPT
                   !.principals = { x \in @ : x.name # sp_name } \cup { Own(sp_name, { }) }]
              /\ IF ~json_ok
                   THEN /\ Exit1({ "Setup failed" })
                        /\ loc' = [loc EXCEPT !.sp_create_calls = @ \cup { sp_name }]
                   ELSE /\ loc' = [loc EXCEPT !.sp_info = CreatedPrincipal(sp_name),
                                              !.sp_create_calls = @ \cup { sp_name },
                                              !.i = 1]
                        /\ pc' = "sp_roles"
                        /\ UNCHANGED << exit_code, log >>
  /\ UNCHANGED << script, args, project_name, run, environments, prov, files >>

\* slip: the loop is left at the first assignment that fails
MoreRolesUnlessFailed(i, rc, roles) == rc = 0 /\ i < Len(roles)
\* for role in roles: the loop goes on to the next role whatever the command returned
MoreRoles(i, rc, roles) == i < Len(roles)

\* for role in additional_roles: az role assignment create (check=False)
AssignRole ==
  /\ pc = "sp_roles"
  /\ script = "azure"
  /\ Called("role_assign")
  /\ \E rc \in ExitCodes :
       LET l == [loc EXCEPT !.role_failed = @ \/ rc # 0] IN
       /\ completed' = Completed("role_assign", FALSE, rc, "")
       /\ cloud' = [cloud EXCEPT !.role_requests = @ \cup
                      { << loc.sp_info.app_id, additional_roles[loc.i] >> }]
       /\ IF MoreRoles(loc.i, rc, additional_roles)
            THEN /\ loc' = [l EXCEPT !.i = @ + 1]
                 /\ pc' = pc
            ELSE /\ loc' = ReturnPrincipal(l, loc.sp_info)
                 /\ pc' = AfterPrincipal(loc)
  /\ UNCHANGED << script, args, project_name, run, environments, exit_code,
                  prov, files, log >>

(***************************************************************************)
(* generate_env_file, generate_backend_configs, generate_terraform_tfvars  *)
(***************************************************************************)
\* env.upper()
Upper(env) ==
  CASE env = "dev" -> "DEV" [] env = "staging" -> "STAGING" [] env = "prod" -> "PROD"
    [] env = "production" -> "PRODUCTION" [] OTHER -> env

\* if "client_secret" in terraform_sp
HasSecret(sp) == "client_secret" \in DOMAIN sp

\* the lines of .env, as key -> value
EnvFileContent(azure_info, terraform_sp, storage_accounts) ==
  LET base == [k \in { "ARM_CLIENT_ID", "ARM_TENANT_ID", "ARM_SUBSCRIPTION_ID" } |->
                 CASE k = "ARM_CLIENT_ID" -> terraform_sp.app_id
                   [] k = "ARM_TENANT_ID" -> azure_info.tenant_id
                   [] OTHER -> azure_info.subscription_id]
      secret == IF HasSecret(terraform_sp)
                  THEN Put(base, "ARM_CLIENT_SECRET", terraform_sp.client_secret)
                  ELSE base
      names == { "STORAGE_ACCOUNT_NAME_" \o Upper(env) : env \in DOMAIN storage_accounts }
  IN [k \in DOMAIN secret \cup names |->
        IF k \in DOMAIN secret THEN secret[k]
        ELSE storage_accounts[CHOOSE env \in DOMAIN storage_accounts :
                                 k = "STORAGE_ACCOUNT_NAME_" \o Upper(env)]]

\* slip: the file is opened for update, the lines of an earlier .env that the new
\* content does not set are kept
GenerateEnvFileKeepsLines ==
  /\ pc = "gen_env"
  /\ LET new == EnvFileContent(loc.azure_info, loc.terraform_sp, loc.storage_accounts)
         old == IF ".env" \in DOMAIN files THEN files[".env"] ELSE << >>
     IN files' = Put(files, ".env",
                     [k \in DOMAIN old \cup DOMAIN new |->
                        IF k \in DOMAIN new THEN new[k] ELSE old[k]])
  /\ log' = log \cup { "Generated .env file" }
  /\ pc' = "gen_backend"
  /\ UNCHANGED << script, args, project_name, run, completed, environments, exit_code,
                  prov, loc, calls, cloud >>

\* with open(".env", "w") as f: f.write(env_content)
GenerateEnvFile ==
  /\ pc = "gen_env"
  /\ files' = Put(files, ".env",
                  EnvFileContent(loc.azure_info, loc.terraform_sp, loc.storage_accounts))
  /\ log' = log \cup { "Generated .env file" }
  /\ pc' = "gen_backend"
  /\ UNCHANGED << script, args, project_name, run, completed, environments, exit_code,
                  prov, loc, calls, cloud >>

BackendConf(env) == "terraform/environments/" \o env \o "/backend.conf"
TfvarsFile(env) == "terraform/environments/" \o env \o "/terraform.tfvars"

BackendConfig(rg_name, storage_accounts, env) ==
  [resource_group_name |-> rg_name, storage_account_name |-> storage_accounts[env],
   container_name |-> "tfstate", key |-> env \o "/terraform.tfstate"]

EnvSet == { environments[k] : k \in 1..Len(environments) }

\* for env in environments: write terraform/environments/<env>/backend.conf
GenerateBackendConfigs ==
  /\ pc = "gen_backend"
  /\ files' = [f \in DOMAIN files \cup { BackendConf(env) : env \in EnvSet } |->
                 IF \E env \in EnvSet : f = BackendConf(env)
                   THEN BackendConfig(loc.rg_name, loc.storage_accounts,
                                      CHOOSE env \in EnvSet : f = BackendConf(env))
                   ELSE files[f]]
  /\ pc' = "gen_tfvars"
  /\ UNCHANGED << script, args, project_name, run, completed, environments, exit_code,
                  prov, loc, calls, cloud, log >>

\* terraform.tfvars is written from terraform.tfvars.example where that file exists
GenerateTerraformTfvars ==
  /\ pc = "gen_tfvars"
  /\ \E examples \in BOOLEAN :
       files' = IF examples
                  THEN [f \in DOMAIN files \cup { TfvarsFile(env) : env \in EnvSet } |->
                          IF f \in DOMAIN files THEN files[f]
                          ELSE [project_name |-> Join(project_name)]]
                  ELSE files
  /\ pc' = "save_credentials"
  /\ UNCHANGED << script, args, project_name, run, completed, environments, exit_code,
                  prov, loc, calls, cloud, log >>

\* if "sp_output" in github_sp: write github-actions-credentials.json; then done
SaveGithubCredentials ==
  /\ pc = "save_credentials"
  /\ files' = IF "sp_output" \in DOMAIN loc.github_sp
                THEN Put(files, "github-actions-credentials.json",
                         [sp_output |-> loc.github_sp.sp_output])
                ELSE files
  /\ log' = log \cup { "Azure credentials setup completed" }
  /\ pc' = "exited"
  /\ exit_code' = 0
  /\ UNCHANGED << script, args, project_name, run, completed, environments, prov, loc,
                  calls, cloud >>

(***************************************************************************)
(* setup-environment-credentials.py                                        *)
(***************************************************************************)
\* "--environment", else "--all-environments", else dev
SelectEnvironmentsEnv(a) ==
  IF a.environment # "" THEN << a.environment >>
  ELSE IF a.all_environments THEN all_environments_list
  ELSE << "dev" >>

ParseArgsEnv ==
  /\ pc = "parse_args"
  /\ script = "env"
  /\ environments' = SelectEnvironmentsEnv(args)
  /\ loc' = [loc EXCEPT !.e = 1, !.i = 1]
  /\ pc' = "get_subscription"
  /\ UNCHANGED << script, args, project_name, run, completed, exit_code, prov, calls, cloud,
                  files, log >>

\* d.get(k, default)
Get(d, k, default) == IF k \in DOMAIN d THEN d[k] ELSE default

\* setup_environment_credentials: self.get_subscription_info()
GetSubscriptionInfoEnv ==
  /\ pc = "get_subscription"
  /\ script = "env"
  /\ Called("account_show")
  /\ \E rc \in ExitCodes, json_ok \in BOOLEAN :
       /\ completed' = Completed("account_show", TRUE, rc, "")
       /\ IF CommandAborts(TRUE, rc)
         THEN Exit1(CommandFailed) /\ UNCHANGED loc
         ELSE IF ~json_ok
           THEN Exit1({ "Setup failed" }) /\ UNCHANGED loc
           ELSE /\ loc' = [loc EXCEPT !.azure_info = AccountInfo,
                                      !.sp_type = environments[loc.e]]
                /\ pc' = "sp_list"
                /\ UNCHANGED << exit_code, log >>
  /\ UNCHANGED << script, args, project_name, run, environments, prov, cloud, files >>

\* what the env script returns for an existing principal
ExistingPrincipalEnv(app_id) == [app_id |-> app_id, existing |-> TRUE]
\* json.loads of the --sdk-auth output
SdkAuth(name) ==
  [clientId |-> AppIdOf(name), clientSecret |-> SecretOf(name),
   subscriptionId |-> AccountInfo.subscription_id, tenantId |-> AccountInfo.tenant_id]

\* base_roles + env_roles.get(environment, [])
AllRoles(environment) == base_roles \o env_roles(environment)

\* create_environment_service_principal: az ad sp list (check=False)
ListServicePrincipalEnv ==
  /\ pc = "sp_list"
  /\ script = "env"
  /\ Called("sp_list")
  /\ \E rc \in ExitCodes :
     \E found \in Listed(cloud.principals, SpName(project_name, loc.sp_type), rc) :
       LET sp_name == SpName(project_name, loc.sp_type)
           out == IF found THEN AppIdOf(sp_name) ELSE ""
       IN /\ completed' = Completed("sp_list", FALSE, rc, out)
          /\ IF PrincipalFound(out)
            THEN /\ log' = log \cup { "Service principal already exists" }
                 /\ cloud' = IF sp_name \in Names(cloud.principals) THEN cloud
                             ELSE [cloud EXCEPT !.principals = @ \cup { Foreign(sp_name) }]
                 /\ loc' = [loc EXCEPT !.sp_info = ExistingPrincipalEnv(out),
                                       !.sp_found = Seen(@, sp_name, found)]
                 /\ pc' = "env_store"
            ELSE /\ pc' = "sp_create"
                 /\ loc' = [loc EXCEPT !.sp_found = Seen(@, sp_name, found)]
                 /\ UNCHANGED << log, cloud >>
  /\ UNCHANGED << script, args, project_name, run, environments, exit_code,
                  prov, files >>

\* az ad sp create-for-rbac (check=True); json.loads
CreateServicePrincipalEnv ==
  /\ pc = "sp_create"
  /\ script = "env"
  /\ Called("sp_create")
  /\ \E rc \in ExitCodes, json_ok \in BOOLEAN :
       LET sp_name == SpName(project_name, loc.sp_type) IN
       /\ completed' = Completed("sp_create", TRUE, rc, "")
       /\ IF CommandAborts(TRUE, rc)
         THEN /\ Exit1(CommandFailed)
              /\ loc' = [loc EXCEPT !.sp_create_calls = @ \cup { sp_name }]
              /\ UNCHANGED cloud
         ELSE /\ cloud' = [cloud EXCEPT
                   !.principals = { x \in @ : x.name # sp_name } \cup { Own(sp_name, { }) }]
              /\ IF ~json_ok
                   THEN /\ Exit1({ "Setup failed" })
                        /\ loc' = [loc EXCEPT !.sp_create_calls = @ \cup { sp_name }]
                   ELSE /\ loc' = [loc EXCEPT !.sp_info = SdkAuth(sp_name),
                                              !.sp_create_calls = @ \cup { sp_name },
                                              !.i = 1]
                        /\ pc' = "sp_roles"
                        /\ UNCHANGED << exit_code, log >>
  /\ UNCHANGED << script, args, project_name, run, environments, prov, files >>

\* assign_environment_roles: az role assignment create per role (check=False)
AssignRoleEnv ==
  /\ pc = "sp_roles"
  /\ script = "env"
  /\ Called("role_assign")
  /\ \E rc \in ExitCodes :
       LET roles == AllRoles(loc.sp_type) IN
       /\ completed' = Completed("role_assign", FALSE, rc, "")
       /\ cloud' = [cloud EXCEPT !.role_requests = @ \cup
                      { << loc.sp_info.clientId, roles[loc.i] >> }]
       /\ loc' = [loc EXCEPT !.role_failed = @ \/ rc # 0,
                             !.i = IF MoreRoles(loc.i, rc, roles) THEN @ + 1 ELSE 1]
       /\ pc' = IF MoreRoles(loc.i, rc, roles) THEN pc ELSE "env_store"
  /\ UNCHANGED << script, args, project_name, run, environments, exit_code,
                  prov, files, log >>

\* slip: the credentials file is written for every principal
WritesCredentialsAlways(sp_info) == TRUE
\* if not sp_info.get("existing"): the credentials file is written
WritesCredentials(sp_info) == ~ Get(sp_info, "existing", FALSE)

\* self.environments[environment] = {...}; generate_environment_credentials_file
StoreEnvironment ==
  /\ pc = "env_store"
  /\ LET environment == environments[loc.e] IN
       /\ loc' = [loc EXCEPT !.env_config = Put(@, environment,
                     [subscription_id |-> loc.azure_info.subscription_id,
                      service_principal |-> loc.sp_info,
                      credentials_file |-> CredentialsFile(environment)])]
       /\ files' = IF WritesCredentials(loc.sp_info)
                     THEN Put(files, CredentialsFile(environment), loc.sp_info)
                     ELSE files
  /\ pc' = IF args.skip_github THEN "env_completed" ELSE "gh_which"
  /\ UNCHANGED << script, args, project_name, run, completed, environments, exit_code,
                  prov, calls, cloud, log >>

(***************************************************************************)
(* setup_github_environment_secrets                                        *)
(***************************************************************************)
secret_names == << "ARM_CLIENT_ID", "ARM_CLIENT_SECRET", "ARM_SUBSCRIPTION_ID",
                   "ARM_TENANT_ID" >>
variable_names == << "ENVIRONMENT", "CLUSTER_NAME", "PROJECT_NAME" >>

\* the secrets dict
SecretValue(env_config, name) ==
  LET sp_info == env_config.service_principal IN
  CASE name = "ARM_CLIENT_ID" -> Get(sp_info, "clientId", Get(sp_info, "app_id", ""))
    [] name = "ARM_CLIENT_SECRET" -> Get(sp_info, "clientSecret", "")
    [] name = "ARM_SUBSCRIPTION_ID" -> env_config.subscription_id
    [] OTHER -> Get(sp_info, "tenantId", "")

\* which gh (check=False)
CheckGithubCli ==
  /\ pc = "gh_which"
  /\ Called("which")
  /\ \E rc \in ExitCodes :
       /\ completed' = Completed("which", FALSE, rc, "")
       /\ IF rc # 0
         THEN /\ log' = log \cup { "GitHub CLI not found" }
              /\ pc' = "env_completed"
         ELSE /\ log' = log
              /\ pc' = "gh_secrets"
  /\ loc' = [loc EXCEPT !.i = 1]
  /\ UNCHANGED << script, args, project_name, run, environments, exit_code,
                  prov, cloud, files >>

\* for secret_name, secret_value in secrets.items(): if secret_value: gh secret set
SetGithubSecret ==
  /\ pc = "gh_secrets"
  /\ LET environment == environments[loc.e]
         name == secret_names[loc.i]
         value == SecretValue(loc.env_config[environment], name)
     IN IF value # ""
          THEN /\ Called("gh_secret")
               /\ \E rc \in ExitCodes :
                    /\ completed' = Completed("gh_secret", FALSE, rc, "")
                    /\ cloud' = [cloud EXCEPT !.gh_secrets = @ \cup { << environment, name >> }]
          ELSE UNCHANGED << calls, completed, cloud >>
  /\ loc' = [loc EXCEPT !.i = IF loc.i < Len(secret_names) THEN @ + 1 ELSE 1]
  /\ pc' = IF loc.i < Len(secret_names) THEN pc ELSE "gh_credentials"
  /\ UNCHANGED << script, args, project_name, run, environments, exit_code,
                  prov, files, log >>

\* if os.path.exists(credentials_file): self.run_command(..., input=..., check=False)
\* run_command takes no "input": the call raises TypeError, caught in main
UploadCredentials ==
  /\ pc = "gh_credentials"
  /\ LET environment == environments[loc.e] IN
       IF loc.env_config[environment].credentials_file \in DOMAIN files
         THEN Exit1({ "Setup failed" })
         ELSE /\ pc' = "gh_variables"
              /\ UNCHANGED << exit_code, log >>
  /\ UNCHANGED << script, args, project_name, run, completed, environments, prov, loc,
                  calls, cloud, files >>

\* for var_name, var_value in variables.items(): gh variable set (check=False)
SetGithubVariable ==
  /\ pc = "gh_variables"
  /\ Called("gh_variable")
  /\ \E rc \in ExitCodes :
       /\ completed' = Completed("gh_variable", FALSE, rc, "")
       /\ cloud' = [cloud EXCEPT !.gh_variables = @ \cup
                   { << environments[loc.e], variable_names[loc.i] >> }]
  /\ loc' = [loc EXCEPT !.i = IF loc.i < Len(variable_names) THEN @ + 1 ELSE 1]
  /\ pc' = IF loc.i < Len(variable_names) THEN pc ELSE "env_completed"
  /\ UNCHANGED << script, args, project_name, run, environments, exit_code,
                  prov, files, log >>

\* print_success("Completed setup for env"); the next environment, or the end
CompleteEnvironment ==
  /\ pc = "env_completed"
  /\ IF loc.e < Len(environments)
       THEN /\ loc' = [loc EXCEPT !.e = @ + 1, !.i = 1, !.sp_info = << >>]
            /\ pc' = "get_subscription"
            /\ log' = log
            /\ UNCHANGED exit_code
       ELSE /\ loc' = loc
            /\ pc' = "exited"
            /\ exit_code' = 0
            /\ log' = log \cup { "Environment-specific credentials setup completed" }
  /\ UNCHANGED << script, args, project_name, run, completed, environments, prov, calls,
                  cloud, files >>

(***************************************************************************)
(* show-infrastructure.py                                                  *)
(***************************************************************************)
\* "--environment", else "--all-environments", else dev
SelectEnvironmentsShow(a) ==
  IF a.environment # "" THEN << a.environment >>
  ELSE IF a.all_environments THEN all_environments_list
  ELSE << "dev" >>

ParseArgsShow ==
  /\ pc = "parse_args"
  /\ script = "show"
  /\ environments' = SelectEnvironmentsShow(args)
  /\ loc' = [loc EXCEPT !.e = 1]
  /\ pc' = "overview"
  /\ UNCHANGED << script, args, project_name, run, completed, exit_code, prov, calls,
                  cloud, files, log >>

\* display_overview, before its loop: the subscription, the resource groups, the
\* principals, the storage accounts and the repository secrets are listed; a
\* listing that fails is reported as a warning
DisplayOverview ==
  /\ pc = "overview"
  /\ \E listed \in BOOLEAN :
       log' = log \cup { "INFRASTRUCTURE OVERVIEW" }
                  \cup (IF listed THEN { } ELSE { "Could not get subscription info" })
  /\ pc' = "env_details"
  /\ UNCHANGED << script, args, project_name, run, completed, environments, exit_code,
                  prov, loc, calls, cloud, files >>

EnvironmentHeader(env) == "ENVIRONMENT: " \o Upper(env)

\* for env in environments: self.display_environment_details(env, include_costs);
\* after the last one, print_success("Infrastructure overview completed!").
\* The listings catch their own errors; what is raised while a listing is
\* printed (a cluster without agent pools, a record without a name) reaches
\* main's "except Exception".
DisplayEnvironmentDetails ==
  /\ pc = "env_details"
  /\ \E raised \in BOOLEAN :
       IF raised
         THEN /\ loc' = loc
              /\ pc' = "exited"
              /\ exit_code' = 1
              /\ log' = log \cup { EnvironmentHeader(environments[loc.e]),
                                    "An error occurred" }
         ELSE IF loc.e < Len(environments)
           THEN /\ loc' = [loc EXCEPT !.e = @ + 1]
                /\ pc' = pc
                /\ log' = log \cup { EnvironmentHeader(environments[loc.e]) }
                /\ UNCHANGED exit_code
           ELSE /\ loc' = loc
                /\ pc' = "exited"
                /\ exit_code' = 0
                /\ log' = log \cup { EnvironmentHeader(environments[loc.e]),
                                      "Infrastructure overview completed" }
  /\ UNCHANGED << script, args, project_name, run, completed, environments, prov,
                  calls, cloud, files >>

(***************************************************************************)
(* azure-cost-monitor.py                                                   *)
(* Amounts are whole dollars. A percentage is kept as its integer part:    *)
(* the code compares it with 100, 90 and 75 only, and x >= n holds of a    *)
(* number exactly when it holds of its integer part.                       *)
(***************************************************************************)
\* --budget-alert values: argparse's type=float takes any number
BudgetLimits == { 0, 4, 10 }
Costs == 0..MaxCost

\* an option that was not given is None: the empty sequence here
None == << >>
Some(v) == << v >>

\* command lines of azure-cost-monitor.py
CostArgs ==
  [ environment  : { "", "prod" },
    budget_alert : { None } \cup { Some(b) : b \in BudgetLimits },
    export       : { "", "costs.json" },
    quiet        : BOOLEAN ]

\* locals of main
CostLocInit ==
  [ subscription_id |-> "",
    cost_data     |-> << >>,
    budget_status |-> None ]

InitCost ==
  /\ script = "cost"
  /\ args \in CostArgs
  /\ project_name \in ProjectNames
  /\ run = 1
  /\ environments = << >>
  /\ pc = "parse_args"
  /\ exit_code = 0
  /\ prov = ProvInit
  /\ loc = CostLocInit
  /\ calls = [k \in CallKinds |-> 0]
  /\ completed = NoResult
  /\ cloud = CloudInit
  /\ files = << >>
  /\ log = { }

\* Python's truth value of an optional float: None and 0.0 are false
Truthy(opt) == opt # None /\ opt[1] # 0

\* main: subprocess.run(["az", "account", "show", "--query", "id", ...], check=True)
GetSubscriptionId ==
  /\ pc = "parse_args"
  /\ script = "cost"
  /\ Called("account_show")
  /\ \E rc \in ExitCodes :
       /\ completed' = Completed("account_show", TRUE, rc, IF rc = 0 THEN "sub-id" ELSE "")
       /\ IF rc # 0
            THEN /\ Exit1({ "Could not get Azure subscription ID" })
                 /\ loc' = loc
            ELSE /\ loc' = [loc EXCEPT !.subscription_id = "sub-id"]
                 /\ pc' = "init_monitor"
                 /\ UNCHANGED << exit_code, log >>
  /\ UNCHANGED << script, args, project_name, run, environments, prov, cloud, files >>

\* AzureCostMonitor.__init__: the clients are built, or the process exits
InitMonitor ==
  /\ pc = "init_monitor"
  /\ \E built \in BOOLEAN :
       IF built
         THEN /\ pc' = "get_cost_data"
              /\ UNCHANGED << exit_code, log >>
         ELSE Exit1({ "Failed to initialize Azure clients" })
  /\ UNCHANGED << script, args, project_name, run, environments, prov, loc, calls,
                  completed, cloud, files >>

\* get_cost_data / get_current_month_cost: the totals of the project's resource
\* groups, or {} when the query raised
GetCostData ==
  /\ pc = "get_cost_data"
  /\ \E cost_data \in { << >> } \cup { [total_cost |-> c] : c \in Costs } :
       /\ loc' = [loc EXCEPT !.cost_data = cost_data]
       /\ log' = log \cup (IF cost_data = << >> THEN { "Error getting cost data" }
                                               ELSE { })
  /\ pc' = "check_budget"
  /\ UNCHANGED << script, args, project_name, run, environments, exit_code, prov,
                  calls, completed, cloud, files >>

\* percentage = (current_cost / budget_limit) * 100 if budget_limit > 0 else 0
Percentage(budget_limit, current_cost) ==
  IF budget_limit > 0 THEN (current_cost * 100) \div budget_limit ELSE 0

\* AzureCostMonitor.check_budget_alerts
CheckBudgetAlerts(budget_limit, current_cost) ==
  LET percentage == Percentage(budget_limit, current_cost)
  IN  [ percentage |-> percentage,
        alerts |-> IF percentage >= 100 THEN << "CRITICAL" >>
                   ELSE IF percentage >= 90 THEN << "WARNING" >>
                   ELSE IF percentage >= 75 THEN << "CAUTION" >>
                   ELSE << >>,
        status |-> IF percentage >= 100 THEN "critical"
                   ELSE IF percentage >= 75 THEN "warning"
                   ELSE "ok" ]

\* main: budget_status = None; if args.budget_alert: budget_status = ...
CheckBudget ==
  /\ pc = "check_budget"
  /\ loc' = [loc EXCEPT !.budget_status =
               IF Truthy(args.budget_alert)
                 THEN Some(CheckBudgetAlerts(args.budget_alert[1],
                                             Get(loc.cost_data, "total_cost", 0)))
                 ELSE None]
  /\ pc' = "report"
  /\ UNCHANGED << script, args, project_name, run, environments, exit_code, prov,
                  calls, completed, cloud, files, log >>

\* main: the report and the budget status, or the total alone with --quiet
Report ==
  /\ pc = "report"
  /\ log' = log \cup
       (IF args.quiet
          THEN { "total" }
          ELSE { "Total Cost" } \cup
               (IF loc.budget_status # None
                  THEN { "Budget Utilization" } \cup
                       { "ALERT: " \o loc.budget_status[1].alerts[k] :
                           k \in 1..Len(loc.budget_status[1].alerts) }
                  ELSE { }))
  /\ pc' = "export"
  /\ UNCHANGED << script, args, project_name, run, environments, exit_code, prov,
                  loc, calls, completed, cloud, files >>

\* main: with open(args.export, "w") as f: json.dump(export_data, f); an error of
\* open is caught nowhere and ends the process with a traceback
Export ==
  /\ pc = "export"
  /\ IF args.export = ""
       THEN /\ pc' = "exit_test"
            /\ UNCHANGED << exit_code, files, log >>
       ELSE \E opened \in BOOLEAN :
              IF opened
                THEN /\ files' = Put(files, args.export,
                                     [ project_name  |-> project_name,
                                       environment   |-> args.environment,
                                       cost_data     |-> loc.cost_data,
                                       budget_status |-> loc.budget_status ])
                     /\ log' = log \cup (IF args.quiet THEN { }
                                         ELSE { "Cost data exported" })
                     /\ pc' = "exit_test"
                     /\ UNCHANGED exit_code
                ELSE /\ Exit1({ "Traceback" })
                     /\ UNCHANGED files
  /\ UNCHANGED << script, args, project_name, run, environments, prov, loc, calls,
                  completed, cloud >>

\* main: if budget_status and budget_status["status"] == "critical": sys.exit(1);
\* otherwise main returns and the status is 0
BudgetExit ==
  /\ pc = "exit_test"
  /\ pc' = "exited"
  /\ exit_code' = IF loc.budget_status # None /\ loc.budget_status[1].status = "critical"
                    THEN 1 ELSE 0
  /\ UNCHANGED << script, args, project_name, run, environments, prov, loc, calls,
                  completed, cloud, files, log >>

(***************************************************************************)
(* Ctrl-C                                                                  *)
(***************************************************************************)
\* print_error("Setup interrupted by user") / print_error("Setup cancelled by user")
Cancelled ==
  CASE script = "azure" -> "Setup interrupted by user"
    [] script = "env" -> "Setup cancelled by user"
    [] OTHER -> "Operation cancelled by user"

\* slip: main catches Exception only, the interrupt ends the process with the
\* status of the signal
KeyboardInterruptUncaught ==
  /\ pc \notin { "parse_args", "exited" }
  /\ pc' = "exited"
  /\ exit_code' = 130
  /\ UNCHANGED << script, args, project_name, run, environments, prov, loc, calls,
                  completed, cloud, files, log >>

\* except KeyboardInterrupt: print_error(...); sys.exit(1).  The interrupt arrives
\* while a step of the try block runs: a command, a file write or a sleep.
KeyboardInterrupt ==
  /\ pc \notin { "parse_args", "exited" }
  /\ Exit1({ Cancelled })
  /\ UNCHANGED << script, args, project_name, run, environments, prov, loc, calls,
                  completed, cloud, files >>

(***************************************************************************)
(* A further run of the script                                             *)
(***************************************************************************)
\* The script is started again with the same command line, in the same
\* subscription and working directory; what the earlier runs created and wrote
\* is still there, the locals and the output are those of a new process.  The
\* prerequisite check of setup-azure-credentials.py creates nothing and reads
\* nothing an earlier run left: the further run is taken up where that check has
\* passed.
Rerun ==
  /\ pc = "exited"
  /\ run < MaxRuns
  /\ run' = run + 1
  /\ exit_code' = 0
  /\ prov' = ProvInit
  /\ loc' = LocInit
  /\ calls' = [k \in CallKinds |-> 0]
  /\ completed' = NoResult
  /\ IF script = "azure"
       THEN /\ SelectEnvironments(args) # << >>
            /\ environments' = SelectEnvironments(args)
            /\ pc' = "get_subscription"
            /\ log' = { "prerequisites passed" }
       ELSE /\ environments' = << >>
            /\ pc' = "parse_args"
            /\ log' = { }
  /\ UNCHANGED << script, args, project_name, cloud, files >>

(***************************************************************************)
(* The specification                                                       *)
(***************************************************************************)
Next ==
  \/ ParseArgs
  \/ CheckTool
  \/ CheckLogin
  \/ QueryProvider
  \/ RegisterProvider
  \/ PollTest
  \/ PollQuery
  \/ PollSleep
  \/ PrerequisitesPassed
  \/ GetSubscriptionInfo
  \/ ShowResourceGroup
  \/ CreateResourceGroup
  \/ BeginStorageAccounts
  \/ CreateStorageAccount
  \/ CreateContainer
  \/ ListServicePrincipal
  \/ CreateServicePrincipal
  \/ AssignRole
  \/ GenerateEnvFile
  \/ GenerateBackendConfigs
  \/ GenerateTerraformTfvars
  \/ SaveGithubCredentials
  \/ ParseArgsEnv
  \/ GetSubscriptionInfoEnv
  \/ ListServicePrincipalEnv
  \/ CreateServicePrincipalEnv
  \/ AssignRoleEnv
  \/ StoreEnvironment
  \/ CheckGithubCli
  \/ SetGithubSecret
  \/ UploadCredentials
  \/ SetGithubVariable
  \/ CompleteEnvironment
  \/ ParseArgsShow
  \/ DisplayOverview
  \/ DisplayEnvironmentDetails

Spec == Init /\ [][Next]_vars

\* a run that the user may interrupt
NextInterrupt == Next \/ KeyboardInterrupt
SpecInterrupt == Init /\ [][NextInterrupt]_vars

\* the runs of the script, one after the other
NextRerun == Next \/ Rerun
SpecRerun == Init /\ [][NextRerun]_vars

\* a run of azure-cost-monitor.py
NextCost ==
  \/ GetSubscriptionId
  \/ InitMonitor
  \/ GetCostData
  \/ CheckBudget
  \/ Report
  \/ Export
  \/ BudgetExit
SpecCost == InitCost /\ [][NextCost]_vars

(***************************************************************************)
(* Properties                                                              *)
(***************************************************************************)
Range(seq) == { seq[k] : k \in 1..Len(seq) }
IndexOf(seq, x) == CHOOSE k \in 1..Len(seq) : seq[k] = x
PollPcs == { "poll_test", "poll_query", "poll_sleep" }
TerraformName == SpName(project_name, "terraform")
GithubName == SpName(project_name, "github-actions")
Failed == pc = "exited" /\ exit_code = 1
MaxPollIterations == max_wait_time \div sleep_interval
TimedOut == "registration is taking longer than expected" \in log
Unregistered == Range(prov.unregistered_providers)

\* C1: when az group show finds the resource group, no create call is issued, the
\* run goes on with the same group name and does not fail at this step; a create
\* call is issued only after the lookup reported the group absent.
C1_ResourceGroupIdempotent ==
  /\ calls.group_create <= 1
  /\ calls.group_create = 1 => loc.group_lookup = "absent"
  /\ loc.group_lookup = "exists" =>
       /\ calls.group_create = 0
       /\ loc.rg_name = RgName(project_name)
       /\ "Resource group already exists" \in log
       /\ Failed => calls.storage_create >= 1

C1_Witness == loc.group_lookup = "exists" /\ pc = "storage_create"

\* no create-for-rbac call and no role assignment for a display name that was found
NoCreateForFound ==
  \A name \in loc.sp_found :
    /\ name \notin loc.sp_create_calls
    /\ \A r \in cloud.role_requests : r[1] # AppIdOf(name)

\* a result for an existing principal: its application id and no secret
SecretLess(result, name) ==
  /\ "app_id" \in DOMAIN result
  /\ result.app_id = AppIdOf(name)
  /\ DOMAIN result \cap { "client_secret", "clientSecret", "sp_output" } = { }

Marked(result) == "existing" \in DOMAIN result /\ result.existing = TRUE

\* the results of the env script for the display names that were found
EnvResultsOfFound(P(_, _)) ==
  \A env \in Range(environments) :
    SpName(project_name, env) \in loc.sp_found =>
      /\ env \in DOMAIN loc.env_config =>
           P(loc.env_config[env].service_principal, SpName(project_name, env))
      /\ (pc = "env_store" /\ environments[loc.e] = env) =>
           P(loc.sp_info, SpName(project_name, env))

\* the results of the azure script for the display names that were found
AzureResultsOfFound(P(_, _)) ==
  /\ TerraformName \in loc.sp_found => P(loc.terraform_sp, TerraformName)
  /\ GithubName \in loc.sp_found => P(loc.github_sp, GithubName)

C3_NoSecretForExisting ==
  /\ script = "azure" =>
       /\ (TerraformName \in loc.sp_found /\ ".env" \in DOMAIN files) =>
            "ARM_CLIENT_SECRET" \notin DOMAIN files[".env"]
       /\ (TerraformName \in loc.sp_found
             /\ pc \in { "gen_backend", "gen_tfvars", "save_credentials" }) =>
            /\ ".env" \in DOMAIN files
            /\ files[".env"].ARM_CLIENT_ID = AppIdOf(TerraformName)
       /\ GithubName \in loc.sp_found =>
            "github-actions-credentials.json" \notin DOMAIN files
       /\ { TerraformName, GithubName } \subseteq loc.sp_found => ~ Failed
  /\ script = "env" =>
       \A env \in Range(environments) :
         SpName(project_name, env) \in loc.sp_found =>
           /\ << env, "ARM_CLIENT_SECRET" >> \notin cloud.gh_secrets
           \* the file is the one an earlier run left, if there is one
           /\ CredentialsFile(env) \in DOMAIN files =>
                files[CredentialsFile(env)] = StaleFile
           \* the one failure while this environment is handled is the upload of
           \* such a file
           /\ (Failed /\ environments[loc.e] = env) =>
                CredentialsFile(env) \in DOMAIN files

C3_Witness ==
  /\ script = "env"
  /\ pc = "gh_variables"
  /\ SpName(project_name, environments[loc.e]) \in loc.sp_found
  /\ << environments[loc.e], "ARM_CLIENT_ID" >> \in cloud.gh_secrets

\* C4: when every namespace answers its first state query with "Registered", the
\* poller returns after one state query per namespace, with no register call, no
\* polling query and no sleep.
C4_AllRegisteredNoCalls ==
  (Len(Providers) > 0 /\ prov.registered_first = ProviderSet) =>
    /\ pc = "providers_done"
    /\ "already registered" \in log
    /\ \A ns \in ProviderSet :
         prov.state_queries[ns] = 1 /\ prov.register_calls[ns] = 0
    /\ prov.poll_iterations = 0
    /\ prov.poll_queries = 0
    /\ prov.sleeps = 0

C4_Witness == pc = "providers_done" /\ prov.registered_first = ProviderSet

\* C5 as stated: every namespace whose first state query failed is classified as
\* unregistered and gets a register call, once the registration pass is over.
C5_RegisterCallForEveryFailedQuery ==
  \A ns \in prov.query_failed :
    /\ ns \in Unregistered
    /\ pc \notin { "query_providers", "register" } => prov.register_calls[ns] = 1

\* C5 amended: a namespace whose first state query failed is classified as
\* unregistered, the failed query does not end the run, and the namespace gets its
\* register call unless the register call of an earlier unregistered namespace
\* returned non-zero, which ends the run.
C5_FailedQueryIsUnregistered ==
  \A ns \in prov.query_failed :
    /\ ns \in Unregistered
    /\ Failed => prov.register_failed
    /\ pc \in PollPcs \cup { "providers_done" } => prov.register_calls[ns] = 1
    /\ Failed =>
         (prov.register_calls[ns] = 1
            <=> IndexOf(prov.unregistered_providers, ns) <= prov.i)

C5_Witness ==
  /\ pc = "poll_test"
  /\ prov.query_failed # { }
  /\ \A ns \in prov.query_failed : prov.register_calls[ns] = 1

\* C6: the polling loop runs at most max_wait_time / sleep_interval = 30
\* iterations, whatever the providers answer: every iteration but the last one
\* sleeps sleep_interval, and no iteration starts once the budget is used up.
C6_AtMostThirtyIterations ==
  /\ prov.poll_iterations <= MaxPollIterations
  /\ prov.sleeps <= prov.poll_iterations
  /\ prov.elapsed >= prov.sleeps * sleep_interval
  /\ pc \in { "poll_query", "poll_sleep" } =>
       prov.sleeps = prov.poll_iterations - 1

C6_Witness ==
  /\ pc = "providers_done"
  /\ TimedOut
  /\ prov.poll_iterations = MaxPollIterations

\* C7: when the budget elapses with a namespace still not "Registered", the poller
\* warns and returns, the prerequisite check passes and the run goes on with the
\* subscription lookup and resource creation.
C7_TimeoutIsNotFatal ==
  TimedOut =>
    /\ pc = "providers_done" =>
         /\ ~ prov.all_registered
         /\ ~ (prov.elapsed < max_wait_time)
    /\ pc # "providers_done" => "prerequisites passed" \in log
    /\ Failed => calls.account_show >= 2

C7_Witness == TimedOut /\ pc = "storage_begin" /\ calls.group_create = 1

\* success is reported after every pending namespace answered "Registered" in
\* this iteration; the loop sleeps after an answer that was not "Registered"
PollOutcome ==
  /\ (pc = "providers_done" /\ "all providers registered" \in log) =>
       /\ prov.answered = Unregistered
       /\ prov.poll_queries = Len(prov.unregistered_providers)
  /\ pc = "poll_sleep" => prov.answered # Unregistered

\* a step of the polling loop stays in the loop or returns; an answer that is not
\* "Registered" leads to the sleep, the sleep to the loop test, and the loop test
\* to another iteration while budget remains
PollStep ==
  /\ pc \in PollPcs => pc' \in PollPcs \cup { "providers_done" }
  /\ (pc = "poll_query" /\ prov'.answered = prov.answered) => pc' = "poll_sleep"
  /\ pc = "poll_sleep" =>
       /\ pc' = "poll_test"
       /\ prov'.elapsed = prov.elapsed + sleep_interval
  /\ (pc = "poll_test" /\ prov.elapsed < max_wait_time) =>
       /\ pc' = "poll_query"
       /\ prov'.poll_iterations = prov.poll_iterations + 1

\* C8: polling reports success only in an iteration in which every pending
\* namespace answered "Registered"; a failed query or another state counts as not
\* ready, does not end the run, and leads to a sleep of sleep_interval and, while
\* budget remains, another iteration.
C8_PollUntilAllRegistered == [] PollOutcome /\ [][PollStep]_vars

C8_Witness ==
  /\ pc = "providers_done"
  /\ "all providers registered" \in log
  /\ prov.poll_iterations >= 2
  /\ Len(prov.unregistered_providers) >= 2

\* C9 as stated: every namespace classified as unregistered gets its register
\* call and polling starts afterwards, whatever the register calls return.
C9_FireAndForget ==
  pc \notin { "query_providers", "register" } =>
    /\ \A ns \in Unregistered : prov.register_calls[ns] = 1
    /\ prov.register_failed => ~ Failed

\* C9 amended: register calls are issued in list order, at most one for each
\* namespace classified as unregistered; polling starts only after each of them
\* got its call and every call returned zero; a register call that returns
\* non-zero ends the run with status 1 at once, before the remaining namespaces
\* get a call and before any polling.
C9_RegisterUntilFailure ==
  /\ \A ns \in ProviderSet :
       /\ prov.register_calls[ns] <= 1
       /\ prov.register_calls[ns] = 1 => ns \in Unregistered
  /\ (pc \in PollPcs \/ prov.poll_iterations > 0) =>
       /\ ~ prov.register_failed
       /\ \A ns \in Unregistered : prov.register_calls[ns] = 1
  /\ prov.register_failed =>
       /\ Failed
       /\ prov.poll_iterations = 0
       /\ \A k \in 1..Len(prov.unregistered_providers) :
            prov.register_calls[prov.unregistered_providers[k]]
              = IF k <= prov.i THEN 1 ELSE 0

C9_Witness ==
  /\ prov.register_failed
  /\ Failed
  /\ prov.i < Len(prov.unregistered_providers)

\* C10: the storage-account name is StorageName(project name, environment label,
\* timestamp suffix), and it is at most 24 characters long for every project
\* name and every environment label the script accepts.
C10_StorageNameWithinLimit ==
  /\ \A env \in DOMAIN loc.storage_accounts :
       /\ loc.storage_accounts[env] = StorageName(project_name, env, loc.timestamp)
       /\ Len(loc.storage_accounts[env]) <= AzureNameLimit
  /\ loc.storage_name # "" => Len(loc.storage_name) <= AzureNameLimit

(***************************************************************************)
(* The provisioning run as a whole                                         *)
(***************************************************************************)
\* project "acme", environment dev, every namespace registered, no resource
\* group and no service principal found
AcmeDev ==
  /\ script = "azure"
  /\ project_name = Acme
  /\ environments = << "dev" >>
  /\ "already registered" \in log
  /\ loc.group_lookup = "absent"
  /\ loc.sp_found = { }

\* no command of the run failed and every JSON answer could be read
AllSucceeded ==
  /\ ~ loc.role_failed
  /\ completed.returncode = 0
  /\ "Setup failed" \notin log

\* C11: for project "acme" and environment dev, with every namespace registered,
\* nothing found by the lookups and every command succeeding, the run issues one
\* resource-group create, one storage-account create, one container create and
\* two service-principal creates, terraform before github-actions, writes .env
\* and the backend.conf of dev and of no other environment, and exits 0.
C11_AcmeDevEndToEnd ==
  /\ (AcmeDev /\ GithubName \in loc.sp_create_calls) =>
       TerraformName \in loc.sp_create_calls
  /\ (AcmeDev /\ pc = "exited" /\ AllSucceeded) =>
       /\ exit_code = 0
       /\ calls.group_create = 1
       /\ calls.storage_create = 1
       /\ calls.container_create = 1
       /\ calls.sp_create = 2
       /\ loc.sp_create_calls = { TerraformName, GithubName }
       /\ DOMAIN files \ { TfvarsFile("dev"), "github-actions-credentials.json" }
            = { ".env", BackendConf("dev") }
       /\ files[BackendConf("dev")].storage_account_name = loc.storage_accounts["dev"]

C11_Witness == AcmeDev /\ pc = "exited" /\ exit_code = 0 /\ AllSucceeded

\* the entities of a kind that the runs have created
Created(entities) == { x \in entities : x.own }

\* a failed check=True command or an exception has ended the run with a status
\* other than 0
FailureExits ==
  ((completed.check /\ completed.returncode # 0)
     \/ "Command failed" \in log \/ "Setup failed" \in log) =>
    /\ pc = "exited"
    /\ exit_code # 0

\* nothing happens after the exit, the failing command is the last one issued,
\* and no step removes an entity that was created
NoRollbackStep ==
  /\ pc # "exited"
  /\ (pc' = "exited" /\ exit_code' # 0) =>
       \A k \in CallKinds : calls'[k] <= calls[k] + (IF k = completed'.kind THEN 1 ELSE 0)
  /\ Created(cloud.groups) \subseteq Created(cloud'.groups)
  /\ Created(cloud.accounts) \subseteq Created(cloud'.accounts)
  /\ Created(cloud.containers) \subseteq Created(cloud'.containers)
  /\ Created(cloud.principals) \subseteq Created(cloud'.principals)

\* C12: when a check=True command returns non-zero or an exception is raised, the
\* run ends with a non-zero exit status, issues no command after the failing one
\* and no delete or rollback: what was created before the failure still exists
\* at the exit.
C12_FailureStopsWithoutRollback == [] FailureExits /\ [][NoRollbackStep]_vars

C12_Witness ==
  /\ pc = "exited"
  /\ exit_code = 1
  /\ completed = Completed("sp_create", TRUE, 1, "")
  /\ Created(cloud.groups) # { }
  /\ Created(cloud.accounts) # { }
  /\ Created(cloud.containers) # { }

\* the storage accounts the runs have created for an environment
AccountsOf(env) ==
  { a \in Created(cloud.accounts) : << "Environment", env >> \in a.tags }

\* C13 as stated, for the storage accounts: the runs create the storage account
\* of an environment once, a further run creates no second one.
C13_NoEntityCreatedTwice ==
  \A env \in Range(environments) : Cardinality(AccountsOf(env)) <= 1

\* a create is issued for a resource group or a service principal only when none
\* of that name exists or the lookup before it failed; the storage step asks for
\* nothing and issues its create
RerunStep ==
  /\ calls'.group_create > calls.group_create =>
       \/ RgName(project_name) \notin Names(cloud.groups)
       \/ completed.kind = "group_show" /\ completed.returncode # 0
  /\ calls'.sp_create > calls.sp_create =>
       \/ SpName(project_name, loc.sp_type) \notin Names(cloud.principals)
       \/ completed.kind = "sp_list" /\ completed.returncode # 0
  /\ pc = "storage_create" =>
       /\ calls'.storage_create = calls.storage_create + 1
       /\ calls'.group_show = calls.group_show
       /\ calls'.sp_list = calls.sp_list

\* a run adds at most one storage account for an environment
OneAccountPerRun ==
  \A env \in Range(environments) : Cardinality(AccountsOf(env)) <= run

\* C13 amended: a further run with the same project name and environments issues
\* no create for the resource group and for the service principals that exist
\* and that its lookups find (a lookup that fails is taken for absence and the
\* create is issued again); the storage accounts are created without a lookup, so
\* every run that reaches the storage step issues a create for each environment
\* and, with another timestamp suffix, adds a storage account of another name.
C13_RerunSkipsGroupAndPrincipals == [] OneAccountPerRun /\ [][RerunStep]_vars

C13_Witness ==
  /\ run = 2
  /\ script = "azure"
  /\ pc = "exited"
  /\ exit_code = 0
  /\ calls.group_create = 0
  /\ calls.sp_create = 0
  /\ calls.storage_create = Len(environments)
  /\ Created(cloud.groups) # { }
  /\ Cardinality(Created(cloud.principals)) = 2
  /\ \A env \in Range(environments) : Cardinality(AccountsOf(env)) = 2

\* the calls of a step: one more of a kind and no other
OnlyCall(kind) ==
  \A k \in CallKinds : calls'[k] = calls[k] + (IF k = kind THEN 1 ELSE 0)

\* where create_storage_accounts stands: the environments before the current one
\* have their account and their container, the current one has its account when
\* the container is due, and a failed account create has ended the run
StorageOrder ==
  /\ pc = "storage_create" =>
       /\ calls.storage_create = loc.i - 1
       /\ calls.container_create = loc.i - 1
       /\ DOMAIN loc.storage_accounts = { environments[k] : k \in 1..(loc.i - 1) }
  /\ pc = "container_create" =>
       /\ calls.storage_create = loc.i
       /\ calls.container_create = loc.i - 1
       /\ completed.kind = "storage_create"
       /\ completed.returncode = 0
       /\ loc.storage_name = StorageName(project_name, environments[loc.i], loc.timestamp)
       /\ loc.storage_name \in Names(Created(cloud.accounts))
  /\ (completed.kind = "storage_create" /\ completed.returncode # 0) =>
       /\ pc = "exited"
       /\ exit_code = 1
       /\ "Command failed" \in log
       /\ calls.container_create = calls.storage_create - 1
       /\ loc.storage_name \notin { c.account : c \in cloud.containers }

\* the account create is the one command of its step, with no lookup before it;
\* the container create follows it at once, in that account, and only then the
\* next environment or the service principals
StorageStep ==
  /\ pc = "storage_create" =>
       /\ OnlyCall("storage_create")
       /\ pc' \in { "container_create", "exited" }
  /\ pc = "container_create" =>
       /\ OnlyCall("container_create")
       /\ pc' # "exited" =>
            /\ \E c \in Created(cloud'.containers) :
                 c.name = "tfstate" /\ c.account = loc.storage_name
            /\ loc'.storage_accounts[environments[loc.i]] = loc.storage_name
            /\ IF loc.i < Len(environments)
                 THEN pc' = "storage_create" /\ loc'.i = loc.i + 1
                 ELSE pc' = "sp_list"

\* C14: for each environment, in list order, the storage-account create is issued
\* without a lookup and, once it succeeded, the create of the container "tfstate"
\* in that account follows at once, before the next environment; a failed
\* storage-account create is reported as a failed command and ends the run before
\* the container create.
C14_AccountThenContainer == [] StorageOrder /\ [][StorageStep]_vars

C14_Witness ==
  /\ pc = "container_create"
  /\ loc.i = 3
  /\ environments = all_environments_list

\* the roles asked for an application id
RolesOf(app_id) == { q[2] : q \in { r \in cloud.role_requests : r[1] = app_id } }

\* the principals setup-azure-credentials.py has created and returned
Returned ==
  { n \in { TerraformName, GithubName } :
      HasSecret(IF n = TerraformName THEN loc.terraform_sp ELSE loc.github_sp) }

\* setup-azure-credentials.py: each role of additional_roles is asked for once,
\* in list order, and what is returned is what create-for-rbac answered
RolesAzure ==
  /\ calls.role_assign = Len(additional_roles) * Cardinality(Returned)
                           + (IF pc = "sp_roles" THEN loc.i - 1 ELSE 0)
  /\ pc = "sp_roles" =>
       /\ loc.sp_info = CreatedPrincipal(SpName(project_name, loc.sp_type))
       /\ RolesOf(loc.sp_info.app_id) = { additional_roles[k] : k \in 1..(loc.i - 1) }
  /\ \A n \in Returned :
       /\ (IF n = TerraformName THEN loc.terraform_sp ELSE loc.github_sp)
            = [app_id |-> AppIdOf(n), client_secret |-> SecretOf(n),
               sp_output |-> "sdk-auth:" \o n]
       /\ RolesOf(AppIdOf(n)) = Range(additional_roles)

\* setup-environment-credentials.py: the same for base_roles + env_roles
RolesEnv ==
  /\ pc = "sp_roles" =>
       /\ loc.sp_info.clientId = AppIdOf(SpName(project_name, loc.sp_type))
       /\ loc.sp_info.clientSecret = SecretOf(SpName(project_name, loc.sp_type))
       /\ RolesOf(loc.sp_info.clientId)
            = { AllRoles(loc.sp_type)[k] : k \in 1..(loc.i - 1) }
  /\ \A env \in DOMAIN loc.env_config :
       LET sp == loc.env_config[env].service_principal IN
       SpName(project_name, env) \in loc.sp_create_calls =>
         /\ sp.clientId = AppIdOf(SpName(project_name, env))
         /\ sp.clientSecret = SecretOf(SpName(project_name, env))
         /\ RolesOf(sp.clientId) = Range(AllRoles(env))

\* a role assignment is one command and never the end of the run
RoleStep ==
  pc = "sp_roles" =>
    /\ OnlyCall("role_assign")
    /\ pc' # "exited"
    /\ exit_code' = exit_code

CallerEnded == { "tool is not installed", "Not logged in to Azure", "Setup failed" }

\* C16: a check=True command that returns non-zero ends the process with status
\* 1 after "Command failed" and the captured standard error were printed; a
\* check=False command that returns non-zero prints nothing and ends nothing, it
\* hands back exit code, stdout and stderr, and the caller decides on them.
C16_CommandRunner ==
  /\ (completed.check /\ completed.returncode # 0) =>
       /\ pc = "exited"
       /\ exit_code = 1
       /\ "Command failed" \in log
       /\ "Error: " \o completed.stderr \in log
       /\ completed.stderr # ""
  /\ (~ completed.check /\ completed.returncode # 0) =>
       /\ "Command failed" \notin log
       /\ pc = "exited" => (exit_code = 0 \/ log \cap CallerEnded # { })
       /\ completed.kind = "group_show" => loc.group_lookup = "absent"
       /\ completed.kind = "role_assign" => loc.role_failed
       /\ completed.kind = "sp_list" => (completed.stdout = "" <=> pc = "sp_create")

C16_Witness ==
  /\ pc = "exited"
  /\ completed = Completed("storage_create", TRUE, 1, "")
  /\ loc.group_lookup = "absent"
  /\ calls.group_create = 1

\* the Project tag of an entity is the project name
ProjectTagged(x) == << "Project", Join(project_name) >> \in x.tags

\* C17 as stated: every resource group, storage account, blob container and
\* service principal the run has created carries a Project tag equal to the
\* project name.
C17_EveryEntityTagged ==
  /\ \A x \in Created(cloud.groups) : ProjectTagged(x)
  /\ \A x \in Created(cloud.accounts) : ProjectTagged(x)
  /\ \A x \in Created(cloud.containers) : ProjectTagged(x)
  /\ \A x \in Created(cloud.principals) : ProjectTagged(x)

\* C17 amended: every resource group and storage account the run has created
\* carries a Project tag equal to the project name, next to Purpose and, for the
\* account, Environment; the blob containers and the service principals are
\* created without tags: a container is the "tfstate" of a tagged account, a
\* principal is named <project>-<purpose>-sp.
C17_GroupsAndAccountsTagged ==
  /\ \A x \in Created(cloud.groups) :
       /\ ProjectTagged(x)
       /\ << "Purpose", "TerraformState" >> \in x.tags
  /\ \A x \in Created(cloud.accounts) :
       /\ ProjectTagged(x)
       /\ << "Purpose", "TerraformState" >> \in x.tags
       /\ \E env \in Range(environments) : << "Environment", env >> \in x.tags
  /\ \A x \in Created(cloud.containers) :
       /\ x.tags = { }
       /\ x.name = "tfstate"
       /\ \E a \in Created(cloud.accounts) : a.name = x.account /\ ProjectTagged(a)
  /\ \A x \in Created(cloud.principals) :
       /\ x.tags = { }
       /\ \E purpose \in { "terraform", "github-actions" } \cup Range(environments) :
            x.name = Join(project_name) \o "-" \o purpose \o "-sp"

C17_Witness ==
  /\ pc = "exited"
  /\ exit_code = 0
  /\ Created(cloud.groups) # { }
  /\ Created(cloud.accounts) # { }
  /\ Created(cloud.containers) # { }
  /\ Created(cloud.principals) # { }

\* which <tool> or az account show of check_prerequisites has returned non-zero
MissingPrerequisite ==
  /\ script = "azure"
  /\ completed.kind \in { "which", "account_show" }
  /\ ~ completed.check
  /\ completed.returncode # 0

\* C18: when a required tool is not found or the CLI is not logged in, the run
\* exits with status 1 and the remediation message, before any provider-state
\* query, any register call and any resource-group, storage-account or
\* service-principal command.
C18_MissingPrerequisiteIsFatal ==
  MissingPrerequisite =>
    /\ pc = "exited"
    /\ exit_code = 1
    /\ completed.kind = "which" => "tool is not installed" \in log
    /\ completed.kind = "account_show" => "Not logged in to Azure" \in log
    /\ \A ns \in ProviderSet :
         prov.state_queries[ns] = 0 /\ prov.register_calls[ns] = 0
    /\ \A k \in CallKinds \ { "which", "account_show" } : calls[k] = 0
    /\ calls.account_show <= 1
    /\ cloud = CloudInit

C18_Witness ==
  /\ MissingPrerequisite
  /\ completed.kind = "account_show"
  /\ calls.which = Len(required_tools)
  /\ pc = "exited"

\* print_success of the last line of the try block
Completion ==
  CASE script = "azure" -> "Azure credentials setup completed"
    [] script = "env" -> "Environment-specific credentials setup completed"
    [] OTHER -> "Infrastructure overview completed"

\* what a run that ends early prints
Errors ==
  { "Command failed", "Setup failed", "tool is not installed", "Not logged in to Azure",
    "Failed to register", "Environment must be specified explicitly",
    "An error occurred", Cancelled }

\* every routine of the sequence has returned
SequenceCompleted ==
  IF script = "azure"
    THEN /\ DOMAIN loc.storage_accounts = Range(environments)
         /\ loc.terraform_sp # << >>
         /\ loc.github_sp # << >>
         /\ ".env" \in DOMAIN files
         /\ \A env \in Range(environments) : BackendConf(env) \in DOMAIN files
    ELSE /\ script = "env" => DOMAIN loc.env_config = Range(environments)
         /\ loc.e = Len(environments)

\* C19: the process exits 0 exactly when every step of the sequence completed;
\* it exits 1 when a step failed, and when Ctrl-C arrives at any point of the
\* sequence, the polling sleep included.
C19_ExitStatus ==
  /\ exit_code \in { 0, 1 }
  /\ pc # "exited" => exit_code = 0
  /\ pc \notin { "parse_args", "exited" } => ENABLED KeyboardInterrupt
  /\ Cancelled \in log => (pc = "exited" /\ exit_code = 1)
  /\ pc = "exited" =>
       /\ exit_code = 0 <=> Completion \in log
       /\ exit_code = 0 <=> log \cap Errors = { }
       /\ exit_code = 0 => SequenceCompleted

\* Ctrl-C has arrived during the sleep of the polling loop
C19_Witness ==
  /\ Cancelled \in log
  /\ pc = "exited"
  /\ exit_code = 1
  /\ prov.poll_iterations >= 2
  /\ ~ prov.all_registered
  /\ prov.sleeps = prov.poll_iterations - 1

\* the environments a run that ended with status 0 has gone through
Processed ==
  CASE script = "azure" -> DOMAIN loc.storage_accounts
    [] script = "env" -> DOMAIN loc.env_config
    [] OTHER -> { env \in Range(environments) : EnvironmentHeader(env) \in log }

\* C20 as stated: with --all-environments the environments processed are dev,
\* staging, prod, in that order, whatever other environment flag is given.
C20_AllEnvironmentsWins ==
  (args.all_environments /\ pc # "parse_args") => environments = all_environments_list

\* C20 amended: --all-environments makes the environments dev, staging, prod, in
\* that order, in setup-azure-credentials.py whatever other environment flag is
\* given, and in setup-environment-credentials.py and show-infrastructure.py
\* when --environment is not given; in these two scripts --environment has
\* precedence and only the environment it names is processed.
C20_AllEnvironmentsPrecedence ==
  (args.all_environments /\ pc # "parse_args") =>
    /\ environments = IF script = "azure" \/ args.environment = ""
                        THEN all_environments_list
                        ELSE << args.environment >>
    /\ (pc = "exited" /\ exit_code = 0) => Processed = Range(environments)
    /\ script = "azure" =>
         \A k \in 1..Len(environments) :
           environments[k] \in DOMAIN loc.storage_accounts =>
             \A j \in 1..k : environments[j] \in DOMAIN loc.storage_accounts

C20_Witness ==
  /\ script = "show"
  /\ args.all_environments
  /\ args.environment = "staging"
  /\ pc = "exited"
  /\ exit_code = 0
  /\ Processed = { "staging" }

\* the cost monitor went as far as its budget test
BudgetTested ==
  /\ script = "cost"
  /\ pc = "exited"
  /\ log \cap { "Total Cost", "total" } # { }
  /\ "Traceback" \notin log

\* C21: the cost-budget checker exits with status 1 exactly when a budget limit
\* was supplied and the current cost is at or above that limit; below the limit,
\* or without a limit, the budget check does not cause a non-zero exit.
C21_BudgetExitStatus ==
  BudgetTested =>
    (exit_code = 1 <=>
       /\ args.budget_alert # None
       /\ Get(loc.cost_data, "total_cost", 0) >= args.budget_alert[1])

\* the run ended because an external command returned non-zero
CommandEndedRun ==
  /\ script = "azure"
  /\ Failed
  /\ completed.returncode # 0 \/ prov.register_failed

\* C22 as stated: every failure of an external command that ends the run with a
\* non-zero status is reported together with the command's standard error.
C22_EveryFailureShowsStderr ==
  CommandEndedRun => "Error: stderr" \in log

\* C22 amended: a failure of a command run with check=True (subscription,
\* resource group, storage account, container, principal creation) is reported
\* as "Command failed" with the command's standard error; a failed tool check,
\* login check or register call ends the run with a message of the script alone
\* and the command's standard error is not printed.
C22_StderrOfCheckedCommands ==
  CommandEndedRun =>
    /\ prov.register_failed =>
         /\ "Failed to register" \in log
         /\ log \cap CommandFailed = { }
    /\ ~prov.register_failed =>
         /\ completed.check =>
              /\ completed.kind \in { "account_show", "group_create", "storage_create",
                                       "container_create", "sp_create" }
              /\ "Command failed" \in log
              /\ ("Error: " \o completed.stderr) \in log
         /\ ~completed.check =>
              /\ completed.kind \in { "which", "account_show" }
              /\ completed.kind = "which" => "tool is not installed" \in log
              /\ completed.kind = "account_show" => "Not logged in to Azure" \in log
              /\ log \cap CommandFailed = { }

C22_Witness ==
  /\ CommandEndedRun
  /\ prov.register_failed
  /\ prov.register_calls[required_providers[1]] = 1
  /\ log \cap CommandFailed = { }

\* C23: permissions are assigned with retry logic: a role-assignment call that
\* failed is attempted again, so a run in which an assignment failed has issued
\* more role-assignment calls than it has roles to assign.
C23_FailedAssignmentRetried ==
  (script = "azure" /\ pc = "exited" /\ exit_code = 0 /\ loc.role_failed) =>
    calls.role_assign > Len(additional_roles) * Cardinality(Returned)

\* C24: with the GitHub CLI available and the environment's credentials file in
\* place, setup_github_environment_secrets uploads AZURE_CREDENTIALS, sets the
\* three variables and returns, so a run that got as far as setting secrets
\* ends with every environment completed.
C24_CredentialsUploadedFromFile ==
  (/\ script = "env"
   /\ pc = "exited"
   /\ completed.kind \in { "gh_secret", "gh_variable" }
   /\ loc.env_config[environments[loc.e]].credentials_file \in DOMAIN files) =>
    /\ exit_code = 0
    /\ \A k \in 1..Len(variable_names) :
         << environments[loc.e], variable_names[k] >> \in cloud.gh_variables
    /\ "Environment-specific credentials setup completed" \in log

\* what a run whose register call failed has done and left
RegisterFailureEndsRun ==
  prov.register_failed =>
    /\ Failed
    /\ "Failed to register" \in log
    /\ prov.poll_iterations = 0 /\ prov.poll_queries = 0 /\ prov.sleeps = 0
    /\ \A k \in 1..Len(prov.unregistered_providers) :
         prov.register_calls[prov.unregistered_providers[k]]
           = (IF k <= prov.i THEN 1 ELSE 0)
    /\ \A kind \in CallKinds \ { "which", "account_show" } : calls[kind] = 0
    /\ calls.account_show = 1
    /\ cloud = CloudInit
    /\ files = << >>

\* the step in which a register call returns non-zero is the last one of the run
RegisterFailureStep ==
  (pc = "register" /\ prov'.register_failed) =>
    /\ pc' = "exited"
    /\ exit_code' = 1
    /\ prov'.register_calls[prov.unregistered_providers[prov.i]] = 1
    /\ \A k \in (prov.i + 1)..Len(prov.unregistered_providers) :
         prov'.register_calls[prov.unregistered_providers[k]] = 0

\* C25: a register call that returns non-zero ends the run with status 1 at once:
\* the remaining unregistered namespaces get no register call, no polling
\* iteration is performed and no provisioning step is reached.
C25_RegisterFailureIsFatal == [] RegisterFailureEndsRun /\ [][RegisterFailureStep]_vars

C25_Witness ==
  /\ prov.register_failed
  /\ Failed
  /\ Len(prov.unregistered_providers) >= 2
  /\ prov.i = 1
  /\ prov.register_calls[prov.unregistered_providers[2]] = 0

\* a create is due exactly after a lookup that printed nothing
CreateAfterEmptyLookup ==
  /\ completed.kind = "sp_list" =>
       (completed.stdout = "" <=> pc = "sp_create")
  /\ pc = "sp_create" =>
       /\ completed.kind = "sp_list"
       /\ completed.stdout = ""
       /\ SpName(project_name, loc.sp_type) \notin loc.sp_found
  /\ loc.sp_found \cap loc.sp_create_calls = { }

\* the lookup branches on its output alone, and the create follows for that name
LookupStep ==
  /\ pc = "sp_list" =>
       LET sp_name == SpName(project_name, loc.sp_type) IN
       /\ completed'.kind = "sp_list"
       /\ calls'.sp_create = calls.sp_create
       /\ completed'.stdout = "" =>
            /\ pc' = "sp_create"
            /\ loc'.sp_type = loc.sp_type
            /\ log' = log
       /\ completed'.stdout # "" =>
            /\ pc' # "sp_create"
            /\ sp_name \in loc'.sp_found
            /\ "Service principal already exists" \in log'
  /\ pc = "sp_create" =>
       /\ calls'.sp_create = calls.sp_create + 1
       /\ loc'.sp_create_calls =
            loc.sp_create_calls \cup { SpName(project_name, loc.sp_type) }

\* C26: a service-principal lookup whose standard output is empty, whatever its
\* exit code, is followed by a create-for-rbac call for that display name; the
\* existing-principal branch is taken only when the output is not empty.
C26_EmptyLookupMeansCreate == [] CreateAfterEmptyLookup /\ [][LookupStep]_vars

C26_Witness ==
  /\ pc = "sp_create"
  /\ completed = Completed("sp_list", FALSE, 1, "")
  /\ loc.sp_type = "github-actions"
  /\ TerraformName \in loc.sp_create_calls

\* this run has written .env
EnvWritten == script = "azure" /\ "Generated .env file" \in log

\* .env holds what this run wrote, and the secret only of a principal this run
\* created
EnvFileOfThisRun ==
  EnvWritten =>
    /\ files[".env"] =
         EnvFileContent(loc.azure_info, loc.terraform_sp, loc.storage_accounts)
    /\ "ARM_CLIENT_SECRET" \in DOMAIN files[".env"] <=>
         /\ TerraformName \in loc.sp_create_calls
         /\ TerraformName \notin loc.sp_found
    /\ "ARM_CLIENT_SECRET" \in DOMAIN files[".env"] =>
         files[".env"]["ARM_CLIENT_SECRET"] = SecretOf(TerraformName)

\* generate_env_file replaces .env whatever it held, and touches no other file
EnvFileStep ==
  pc = "gen_env" =>
    /\ ".env" \in DOMAIN files'
    /\ DOMAIN files'[".env"] =
         { "ARM_CLIENT_ID", "ARM_TENANT_ID", "ARM_SUBSCRIPTION_ID" }
           \cup (IF HasSecret(loc.terraform_sp) THEN { "ARM_CLIENT_SECRET" } ELSE { })
           \cup { "STORAGE_ACCOUNT_NAME_" \o Upper(env) : env \in Range(environments) }
    /\ \A f \in DOMAIN files \ { ".env" } : f \in DOMAIN files' /\ files'[f] = files[f]

\* C27: generate_env_file always overwrites .env, and the file it leaves has an
\* ARM_CLIENT_SECRET entry exactly when the terraform principal was created in
\* the current run; a secret that an earlier run wrote is gone once a later run
\* finds the principal existing.
C27_EnvFileOverwritten == [] EnvFileOfThisRun /\ [][EnvFileStep]_vars

C27_Witness ==
  /\ run = 2
  /\ EnvWritten
  /\ "ARM_CLIENT_SECRET" \notin DOMAIN files[".env"]
  /\ TerraformName \in loc.sp_found
  /\ TerraformName \in Names(Created(cloud.principals))
  /\ "github-actions-credentials.json" \in DOMAIN files
  /\ loc.sp_create_calls = { }

\* create_storage_accounts has returned and the files are being written
StorageReturned ==
  /\ script = "azure"
  /\ pc \in { "sp_list", "sp_create", "sp_roles", "gen_env", "gen_backend", "gen_tfvars",
               "save_credentials" }
\* generate_backend_configs has returned
BackendWritten ==
  /\ script = "azure"
  /\ pc \in { "gen_tfvars", "save_credentials" } \/ (pc = "exited" /\ exit_code = 0)

\* the mapping of this run: an account for every requested environment, created
\* in this run for that environment, with its container, under a name of its own
StorageMapping ==
  /\ DOMAIN loc.storage_accounts = Range(environments)
  /\ \A env \in Range(environments) :
       /\ loc.storage_accounts[env] = StorageName(project_name, env, loc.timestamp)
       /\ Own(loc.storage_accounts[env], AccountTags(project_name, env)) \in cloud.accounts
       /\ \E c \in cloud.containers :
            c.name = "tfstate" /\ c.account = loc.storage_accounts[env]
  /\ \A e1, e2 \in Range(environments) :
       e1 # e2 => loc.storage_accounts[e1] # loc.storage_accounts[e2]
  /\ calls.storage_create = Len(environments)
  /\ calls.container_create = Len(environments)

\* C28: when generate_backend_configs is reached the mapping has an entry for
\* every requested environment, and the backend.conf of an environment names the
\* resource group of this run, the storage account created for that environment
\* in this run, container "tfstate" and key "<env>/terraform.tfstate"; two
\* environments of one run never share a storage-account name.
C28_BackendNamesOwnAccount ==
  /\ (StorageReturned \/ BackendWritten) => StorageMapping
  /\ BackendWritten =>
       \A env \in Range(environments) :
         /\ BackendConf(env) \in DOMAIN files
         /\ files[BackendConf(env)] =
              [ resource_group_name  |-> RgName(project_name),
                storage_account_name |-> StorageName(project_name, env, loc.timestamp),
                container_name       |-> "tfstate",
                key                  |-> env \o "/terraform.tfstate" ]

C28_Witness ==
  /\ BackendWritten
  /\ pc = "exited"
  /\ run = 2
  /\ Len(environments) = 3
  /\ \A env \in Range(environments) : Cardinality(AccountsOf(env)) = 2

\* none of --environment, --environments, --all-environments was given
NoEnvironmentChosen ==
  /\ script = "azure"
  /\ ~ args.all_environments
  /\ args.environment = ""
  /\ args.environments = << >>

ProvisioningCalls ==
  { "group_show", "group_create", "storage_create", "container_create",
    "sp_list", "sp_create", "role_assign" }
\* the account and the container of every requested environment exist
StorageDone ==
  /\ DOMAIN loc.storage_accounts = Range(environments)
  /\ calls.storage_create = Len(environments)
  /\ calls.container_create = Len(environments)
  /\ \A env \in Range(environments) :
       /\ loc.storage_accounts[env] \in Names(Created(cloud.accounts))
       /\ \E c \in cloud.containers : c.account = loc.storage_accounts[env]
\* both calls of create_service_principal have returned
PrincipalsReturned == loc.terraform_sp # << >> /\ loc.github_sp # << >>

\* where a run of setup-azure-credentials.py stands, told from what it has done
StepsInOrder ==
  script = "azure" =>
    /\ (\E kind \in ProvisioningCalls : calls[kind] > 0) =>
         /\ "prerequisites passed" \in log
         /\ calls.which = Len(required_tools)
         /\ calls.account_show = 2
         /\ loc.azure_info = AccountInfo
    /\ (calls.storage_create > 0) => loc.rg_name \in Names(cloud.groups)
    /\ (calls.sp_list > 0 \/ calls.sp_create > 0 \/ calls.role_assign > 0) => StorageDone
    /\ files # << >> => PrincipalsReturned
    /\ "prerequisites passed" \notin log => cloud = CloudInit

\* a step issues a provisioning command, or writes a file, only in its turn
OrderedStep ==
  script = "azure" =>
    /\ (\E kind \in ProvisioningCalls : calls'[kind] > calls[kind]) =>
         "prerequisites passed" \in log
    /\ (calls'.sp_list > calls.sp_list \/ calls'.sp_create > calls.sp_create) =>
         StorageDone
    /\ files' # files =>
         /\ PrincipalsReturned
         /\ StorageDone
         /\ pc \in { "gen_env", "gen_backend", "gen_tfvars", "save_credentials" }

\* C30: the steps are strictly ordered in every run: no resource-group,
\* storage-account or service-principal call before the prerequisite check has
\* returned; no service-principal create before the account and the container of
\* every requested environment were created; no output file unless both
\* service-principal steps returned.
C30_StepsStrictlyOrdered == [] StepsInOrder /\ [][OrderedStep]_vars

C30_Witness ==
  /\ script = "azure"
  /\ pc = "exited"
  /\ exit_code = 0
  /\ Len(environments) = 3
  /\ { ".env", "github-actions-credentials.json" } \subseteq DOMAIN files
  /\ TerraformName \in loc.sp_create_calls

====
